---- MODULE Spec2Model ----
(***************************************************************************)
(* The prediction-run pipeline of routes/modelPredict.js: the POST /       *)
(* handler that loads the dataset, drives the external python program,    *)
(* recovers its JSON output, and writes the two prediction sequences to   *)
(* the database.                                                          *)
(*                                                                         *)
(* Text is modelled as a sequence of lexemes.  A lexeme is one of          *)
(*   "{"   a lone opening brace                                            *)
(*   "}"   a lone closing brace                                            *)
(*   "w"   text without any brace that is no JSON (a diagnostic line)      *)
(*   "D"   the result document the program serialises: a complete JSON     *)
(*         object text, whose first character is '{' and whose last        *)
(*         character is '}', carrying the members of the variable doc      *)
(* so that indexOf('{'), lastIndexOf('}') and substring act on lexeme      *)
(* positions exactly as they act on the character positions of the text.   *)
(***************************************************************************)
EXTENDS Integers, Sequences, FiniteSets, TLC

\* ---------------------------------------------------------------- bounds
\* Longest stdout text the program emits, in lexemes.
MaxOut == 3
\* Longest stderr text the program emits, in chunks.
MaxErr == 2
\* Longest prediction sequence of the result document.
MaxEntries == 2
\* Longest prediction sequence of the result documents of SpecLong.
MaxLong == 8

\* ------------------------------------------------------- program constants
\* pythonOutput.substring(0, 200) in the failure response.
OutputEchoLimit == 200
\* savedPricePredictions.slice(0, 5) / savedFactorPredictions.slice(0, 5).
SampleLimit == 5

\* ------------------------------------------------------------- the inputs
OutLexemes == {"{", "}", "w", "D"}
ErrChunks == {"e"}
ExitCodes == {0, 1}

\* What getAllStocks can resolve to: no value (null / undefined), no rows, or
\* some rows of Stockdata (opaque to the handler).
NoValue == [isNull |-> TRUE, rows |-> <<>>]
Rows(r) == [isNull |-> FALSE, rows |-> r]
StockResults == {NoValue, Rows(<<>>), Rows(<<"row1">>), Rows(<<"row1", "row2">>)}

\* Raw entries the program can put under final_predictions.
RawPrice(n) == [stockid |-> n, date |-> 10 + n, label |-> 100 + n]
\* Raw entries the program can put under factor_predictions.
RawFactor(n) ==
    [stockid |-> n, date |-> 20 + n,
     y0 |-> 1000 + n, y1 |-> 2000 + n, y2 |-> 3000 + n, y3 |-> 4000 + n]

\* A member value of the document: the key is absent, holds a falsy value
\* (null, 0, "", false), holds a truthy value that is not iterable (a
\* number, an object, true), or holds an array.
Absent == [kind |-> "absent", items |-> <<>>]
Falsy == [kind |-> "falsy", items |-> <<>>]
NotIterable == [kind |-> "noniter", items |-> <<>>]
Array(s) == [kind |-> "seq", items |-> s]

\* Raw entries without a stock identifier, and without a date: 0 stands for
\* the missing (undefined) or empty ("") value of the field.
BlankPrice == [stockid |-> 0, date |-> 11, label |-> 101]
BlankFactor ==
    [stockid |-> 1, date |-> 0, y0 |-> 1001, y1 |-> 2001, y2 |-> 3001, y3 |-> 4001]

PriceArrays == {Array([i \in 1..n |-> RawPrice(i)]) : n \in 0..MaxEntries}
    \cup {Array(<<RawPrice(2), RawPrice(1)>>), Array(<<BlankPrice>>)}
FactorArrays == {Array([i \in 1..n |-> RawFactor(i)]) : n \in 0..MaxEntries}
    \cup {Array(<<BlankFactor>>)}

Documents ==
    [final_predictions : {Absent, Falsy, NotIterable} \cup PriceArrays,
     factor_predictions : {Absent, Falsy, NotIterable} \cup FactorArrays]

EmptyObject == [final_predictions |-> Absent, factor_predictions |-> Absent]

VARIABLES
    pc,                      \* position of the handler
    doc,                     \* the result document the program serialises as "D"
    stockData,               \* const stockData: <<>> until getAllStocks resolves, then <<value>>
    spawned,                 \* number of spawn() calls
    stdinLog,                \* operations on pythonProcess.stdin, in order
    procOut,                 \* all the program wrote to its stdout, in order
    procErr,                 \* all the program wrote to its stderr, in order
    pythonOutput,            \* let pythonOutput
    pythonError,             \* let pythonError
    exitCode,                \* const exitCode
    parseLog,                \* the arguments of the JSON.parse calls, in order
    predictions,             \* let predictions: <<>> while undefined, then <<value>>
    priceIdx,                \* position of the for-of over final_predictions
    factorIdx,               \* position of the for-of over factor_predictions
    pendingRecord,           \* the record of the write being awaited
    savedPricePredictions,   \* const savedPricePredictions
    savedFactorPredictions,  \* const savedFactorPredictions
    sinkLog,                 \* calls of the sink's write operations and how they settled
    predictionTable,         \* rows written by savePrediction
    factorTable,             \* rows written by saveFactorPrediction
    responses,               \* responses sent on res, in order
    clock,                   \* the wall clock read by new Date()
    outChunks,               \* the chunks of the stdout 'data' events, in arrival order
    errChunks,               \* the chunks of the stderr 'data' events, in arrival order
    other,                   \* the state of the other request's handler, while this one runs
    cur,                     \* which of the two requests the handler variables belong to
    authHeader,              \* req.headers.authorization of the request
    mw,                      \* position of the request in the middleware chain
    reqUser,                 \* req.user: <<>> while undefined, then <<value>>
    nextCalls,               \* how often authenticate has called next()
    Person,                  \* the rows of the Person table
    calls,                   \* the calls of database functions in flight, by caller
    database,                \* let database of database.js (0 while null)
    dbInstance,              \* let dbInstance of authenticate.js (0 while null)
    instances,               \* the Database instances created, in order
    app                      \* the Express app: routes mounted, listening, exit code

\* The variables of the prediction route's handler and of its surroundings.
handlerVars ==
        <<pc, doc, stockData, spawned, stdinLog, procOut, procErr, pythonOutput,
          pythonError, exitCode, parseLog, predictions, priceIdx, factorIdx,
          pendingRecord, savedPricePredictions, savedFactorPredictions, sinkLog,
          predictionTable, factorTable, responses, clock, outChunks, errChunks,
          other, cur>>
\* The variables of the middleware, of the Person table and of the startup.
authVars == <<authHeader, mw, reqUser, nextCalls>>
appVars == <<authVars, Person, calls, database, dbInstance, instances, app>>

vars == <<handlerVars, appVars>>

\* ---------------------------------------------------------------- helpers
Min(a, b) == IF a < b THEN a ELSE b

\* String.prototype.substring(start, end) on 0-based positions: arguments
\* are clamped to [0, length] and swapped when start > end.
Substring(s, start, end) ==
    LET a == Min(IF start < 0 THEN 0 ELSE start, Len(s))
        b == Min(IF end < 0 THEN 0 ELSE end, Len(s))
        lo == Min(a, b)
        hi == IF a < b THEN b ELSE a
    IN  SubSeq(s, lo + 1, hi)

\* Variant of slice that keeps the last n elements (slice(-n)).
Slice_Last(s, n) == SubSeq(s, Len(s) - Min(n, Len(s)) + 1, Len(s))

\* Array.prototype.slice(0, n).
Slice(s, n) == SubSeq(s, 1, Min(n, Len(s)))

HasOpen(lex) == lex \in {"{", "D"}
HasClose(lex) == lex \in {"}", "D"}

\* String.prototype.indexOf('{'): 0-based position of the first one, or -1.
IndexOfOpen(s) ==
    IF \E i \in 1..Len(s) : HasOpen(s[i])
    THEN (CHOOSE i \in 1..Len(s) :
            HasOpen(s[i]) /\ \A j \in 1..(i - 1) : ~HasOpen(s[j])) - 1
    ELSE -1

\* String.prototype.lastIndexOf('}'): 0-based position of the last one, or -1.
\* The '}' of a "D" lexeme is its last character, so the position just after
\* it is the position of the next lexeme.
LastIndexOfClose(s) ==
    IF \E i \in 1..Len(s) : HasClose(s[i])
    THEN (CHOOSE i \in 1..Len(s) :
            HasClose(s[i]) /\ \A j \in (i + 1)..Len(s) : ~HasClose(s[j])) - 1
    ELSE -1

\* JSON.parse: a text is a JSON document when it is exactly the result
\* document, or exactly "{" "}" (the empty object); anything else throws.
JSONparse(s, d) ==
    IF s = <<"D">> THEN [ok |-> TRUE, value |-> d]
    ELSE IF s = <<"{", "}">> THEN [ok |-> TRUE, value |-> EmptyObject]
    ELSE [ok |-> FALSE, value |-> EmptyObject]

\* ------------------------------------------------------------ responses
\* res.status(404).json({ error: '未找到股票数据' })
NoStockDataResponse == [status |-> 404, error |-> "NoStockData"]

\* res.status(500).json({ error: '模型执行失败', details: pythonError })
ModelFailedResponse(err) ==
    [status |-> 500, error |-> "ModelExecutionFailed", details |-> err]

\* Variant of the inner catch's response that echoes the whole output.
ParseFailedResponse_WholeOutput(msg, out) ==
    [status |-> 500, error |-> "ParseResultFailed", details |-> msg,
     pythonOutput |-> out]

\* res.status(500).json({ error: '解析预测结果失败', details: parseError.message,
\*                        pythonOutput: pythonOutput.substring(0, 200) })
ParseFailedResponse(msg, out) ==
    [status |-> 500, error |-> "ParseResultFailed", details |-> msg,
     pythonOutput |-> Substring(out, 0, OutputEchoLimit)]

\* res.status(500).json({ error: error.message }) of the outer catch
OuterErrorResponse(msg) == [status |-> 500, error |-> msg]

\* res.status(200).json({ message, pricePredictions, factorPredictions })
SuccessResponse(price, factor) ==
    [status |-> 200, message |-> "PredictionsSaved",
     pricePredictions |->
        [count |-> Len(price), samples |-> Slice(price, SampleLimit)],
     factorPredictions |->
        [count |-> Len(factor), samples |-> Slice(factor, SampleLimit)]]

\* ----------------------------------------------------------------- Init
\* The variables of one request's handler (its closure), as a record.
RunState ==
    [pc |-> pc, stockData |-> stockData, spawned |-> spawned,
     stdinLog |-> stdinLog, procOut |-> procOut, procErr |-> procErr,
     pythonOutput |-> pythonOutput, pythonError |-> pythonError,
     exitCode |-> exitCode, parseLog |-> parseLog, predictions |-> predictions,
     priceIdx |-> priceIdx, factorIdx |-> factorIdx,
     pendingRecord |-> pendingRecord,
     savedPricePredictions |-> savedPricePredictions,
     savedFactorPredictions |-> savedFactorPredictions,
     sinkLog |-> sinkLog, responses |-> responses,
     outChunks |-> outChunks, errChunks |-> errChunks]

\* A handler that has not been entered yet.
IdleRun ==
    [pc |-> "idle", stockData |-> <<>>, spawned |-> 0,
     stdinLog |-> <<>>, procOut |-> <<>>, procErr |-> <<>>,
     pythonOutput |-> <<>>, pythonError |-> <<>>,
     exitCode |-> -1, parseLog |-> <<>>, predictions |-> <<>>,
     priceIdx |-> 0, factorIdx |-> 0,
     pendingRecord |-> <<>>,
     savedPricePredictions |-> <<>>,
     savedFactorPredictions |-> <<>>,
     sinkLog |-> <<>>, responses |-> <<>>,
     outChunks |-> <<>>, errChunks |-> <<>>]

\* The handler of a request that has not arrived, an empty sink.
InitHandler ==
    /\ pc = "idle"
    /\ stockData = <<>>
    /\ spawned = 0
    /\ stdinLog = <<>>
    /\ procOut = <<>>
    /\ procErr = <<>>
    /\ pythonOutput = <<>>
    /\ pythonError = <<>>
    /\ exitCode = -1
    /\ parseLog = <<>>
    /\ predictions = <<>>
    /\ priceIdx = 0
    /\ factorIdx = 0
    /\ pendingRecord = <<>>
    /\ savedPricePredictions = <<>>
    /\ savedFactorPredictions = <<>>
    /\ sinkLog = <<>>
    /\ predictionTable = <<>>
    /\ factorTable = <<>>
    /\ responses = <<>>
    /\ clock = 0
    /\ outChunks = <<>>
    /\ errChunks = <<>>
    /\ other = IdleRun
    /\ cur = 1

\* No request in the middleware, an empty Person table, no connection, the
\* application not started.
NoToken == [verdict |-> "invalid", userId |-> 0, role |-> "none"]
NoHeader == [scheme |-> "none", token |-> NoToken]
InitAuth ==
    /\ authHeader = NoHeader
    /\ mw = "none"
    /\ reqUser = <<>>
    /\ nextCalls = 0
InitConnection ==
    /\ database = 0
    /\ dbInstance = 0
    /\ instances = <<>>
    /\ app = [mounted |-> FALSE, listening |-> FALSE, exited |-> FALSE, code |-> 0]
InitApp ==
    /\ InitAuth
    /\ Person = <<>>
    /\ calls = <<>>
    /\ InitConnection

Init == doc \in Documents /\ InitHandler /\ InitApp

\* ------------------------------------------------------- dataset and spawn
\* Variant of the entry that admits one run at a time: a request arriving
\* while the other request's run is in flight is held back.
Trigger_SingleFlight ==
    /\ pc = "idle"
    /\ other.pc \in {"idle", "done"}
    /\ pc' = "awaitStocks"
    /\ UNCHANGED <<doc, stockData, spawned, stdinLog, procOut, procErr,
                   pythonOutput, pythonError, exitCode, parseLog, predictions,
                   priceIdx, factorIdx, pendingRecord, savedPricePredictions,
                   savedFactorPredictions, sinkLog, predictionTable,
                   factorTable, responses, clock>>
    /\ UNCHANGED <<outChunks, errChunks, other, cur, appVars>>

\* The request reaches the handler, which calls database.getAllStocks().
Trigger ==
    /\ pc = "idle"
    /\ pc' = "awaitStocks"
    /\ UNCHANGED <<doc, stockData, spawned, stdinLog, procOut, procErr,
                   pythonOutput, pythonError, exitCode, parseLog, predictions,
                   priceIdx, factorIdx, pendingRecord, savedPricePredictions,
                   savedFactorPredictions, sinkLog, predictionTable,
                   factorTable, responses, clock>>
    /\ UNCHANGED <<outChunks, errChunks, other, cur, appVars>>

\* getAllStocks rejects: the outer catch answers 500 with the error's message.
StocksRejected ==
    /\ pc = "awaitStocks"
    /\ responses' = Append(responses, OuterErrorResponse("QueryFailed"))
    /\ pc' = "done"
    /\ UNCHANGED <<doc, stockData, spawned, stdinLog, procOut, procErr,
                   pythonOutput, pythonError, exitCode, parseLog, predictions,
                   priceIdx, factorIdx, pendingRecord, savedPricePredictions,
                   savedFactorPredictions, sinkLog, predictionTable,
                   factorTable, clock>>
    /\ UNCHANGED <<outChunks, errChunks, other, cur, appVars>>

\* Variant of the emptiness test that looks at the length only.
IsEmptyDataset_LengthOnly(sd) == ~sd.isNull /\ Len(sd.rows) = 0

\* JSON.stringify(stockData): the rows between the brackets of a JSON array.
Stringify(rows) == <<"[">> \o rows \o <<"]">>

\* !stockData || stockData.length === 0
IsEmptyDataset(sd) == sd.isNull \/ Len(sd.rows) = 0

\* Variant of the feeding that writes the dataset row by row (one write
\* per row) before ending stdin.
StocksResolved_WritePerRow(sd) ==
    /\ pc = "awaitStocks"
    /\ stockData' = <<sd>>
    /\ IF IsEmptyDataset(sd)
       THEN /\ responses' = Append(responses, NoStockDataResponse)
            /\ pc' = "done"
            /\ UNCHANGED <<spawned, stdinLog>>
       ELSE /\ spawned' = spawned + 1
            /\ stdinLog' = stdinLog
                   \o [i \in 1..Len(sd.rows) |->
                         [op |-> "write", data |-> Stringify(<<sd.rows[i]>>)]]
                   \o <<[op |-> "end", data |-> <<>>]>>
            /\ pc' = "awaitClose"
            /\ UNCHANGED responses
    /\ UNCHANGED <<doc, procOut, procErr, pythonOutput, pythonError, exitCode,
                   parseLog, predictions, priceIdx, factorIdx, pendingRecord,
                   savedPricePredictions, savedFactorPredictions, sinkLog,
                   predictionTable, factorTable, clock>>
    /\ UNCHANGED <<outChunks, errChunks, other, cur, appVars>>

\* getAllStocks resolves to sd.  An empty dataset is answered 404; otherwise
\* the program is spawned, the serialised dataset is written to its stdin in
\* one write, stdin is ended, and the handler waits for 'close'.
StocksResolved(sd) ==
    /\ pc = "awaitStocks"
    /\ stockData' = <<sd>>
    /\ IF IsEmptyDataset(sd)
       THEN /\ responses' = Append(responses, NoStockDataResponse)
            /\ pc' = "done"
            /\ UNCHANGED <<spawned, stdinLog>>
       ELSE /\ spawned' = spawned + 1
            /\ stdinLog' = stdinLog \o <<[op |-> "write", data |-> Stringify(sd.rows)],
                                         [op |-> "end", data |-> <<>>]>>
            /\ pc' = "awaitClose"
            /\ UNCHANGED responses
    /\ UNCHANGED <<doc, procOut, procErr, pythonOutput, pythonError, exitCode,
                   parseLog, predictions, priceIdx, factorIdx, pendingRecord,
                   savedPricePredictions, savedFactorPredictions, sinkLog,
                   predictionTable, factorTable, clock>>
    /\ UNCHANGED <<outChunks, errChunks, other, cur, appVars>>

\* ------------------------------------------------------ collecting output
\* data.toString(): the UTF-8 decoding of one chunk of bytes on its own.
\* "L" and "T" are the lead and the trailing byte of a character encoded in
\* two bytes: together, in this order and in one chunk, they decode to the
\* character "C"; a lead byte without its trailing byte in the chunk, or a
\* trailing byte without its lead byte, decodes to the replacement
\* character "?" (U+FFFD).  Every other lexeme stands for ASCII text.
toString(data) ==
    LET decoded ==
            [i \in 1..Len(data) |->
                IF data[i] = "L" /\ i < Len(data) /\ data[i + 1] = "T"
                THEN "C"
                ELSE IF data[i] = "T" /\ i > 1 /\ data[i - 1] = "L"
                THEN "consumed"
                ELSE IF data[i] \in {"L", "T"}
                THEN "?"
                ELSE data[i]]
    IN  SelectSeq(decoded, LAMBDA c : c # "consumed")

\* pythonProcess.stdout.on('data'): the program writes a chunk to stdout and
\* the listener appends it to pythonOutput.
StdoutData(chunk) ==
    /\ pc = "awaitClose"
    /\ Len(procOut) < MaxOut
    /\ procOut' = procOut \o chunk
    /\ pythonOutput' = pythonOutput \o toString(chunk)
    /\ UNCHANGED <<pc, doc, stockData, spawned, stdinLog, procErr, pythonError,
                   exitCode, parseLog, predictions, priceIdx, factorIdx,
                   pendingRecord, savedPricePredictions, savedFactorPredictions,
                   sinkLog, predictionTable, factorTable, responses, clock>>
    /\ outChunks' = Append(outChunks, chunk)
    /\ UNCHANGED <<errChunks, other, cur, appVars>>

\* Variant of the stderr listener that keeps the latest chunk only
\* (pythonError = error in place of pythonError += error).
StderrData_Overwrite(chunk) ==
    /\ pc = "awaitClose"
    /\ Len(procErr) < MaxErr
    /\ procErr' = procErr \o chunk
    /\ pythonError' = toString(chunk)
    /\ UNCHANGED <<pc, doc, stockData, spawned, stdinLog, procOut, pythonOutput,
                   exitCode, parseLog, predictions, priceIdx, factorIdx,
                   pendingRecord, savedPricePredictions, savedFactorPredictions,
                   sinkLog, predictionTable, factorTable, responses, clock>>
    /\ errChunks' = Append(errChunks, chunk)
    /\ UNCHANGED <<outChunks, other, cur, appVars>>

\* Variant of the stderr listener that gives up on the first error output:
\* it answers the failure at once instead of waiting for 'close'.
StderrData_FailFast(chunk) ==
    /\ pc = "awaitClose"
    /\ Len(procErr) < MaxErr
    /\ procErr' = procErr \o chunk
    /\ pythonError' = pythonError \o toString(chunk)
    /\ responses' = Append(responses, ModelFailedResponse(pythonError'))
    /\ pc' = "done"
    /\ UNCHANGED <<doc, stockData, spawned, stdinLog, procOut, pythonOutput,
                   exitCode, parseLog, predictions, priceIdx, factorIdx,
                   pendingRecord, savedPricePredictions, savedFactorPredictions,
                   sinkLog, predictionTable, factorTable, clock>>
    /\ errChunks' = Append(errChunks, chunk)
    /\ UNCHANGED <<outChunks, other, cur, appVars>>

\* pythonProcess.stderr.on('data'): likewise for stderr and pythonError.
StderrData(chunk) ==
    /\ pc = "awaitClose"
    /\ Len(procErr) < MaxErr
    /\ procErr' = procErr \o chunk
    /\ pythonError' = pythonError \o toString(chunk)
    /\ UNCHANGED <<pc, doc, stockData, spawned, stdinLog, procOut, pythonOutput,
                   exitCode, parseLog, predictions, priceIdx, factorIdx,
                   pendingRecord, savedPricePredictions, savedFactorPredictions,
                   sinkLog, predictionTable, factorTable, responses, clock>>
    /\ errChunks' = Append(errChunks, chunk)
    /\ UNCHANGED <<outChunks, other, cur, appVars>>

\* Variant of the exit-code test whose failure branch lacks the return, so
\* that the handler goes on to the parsing after having answered.
Close_NoReturn(code) ==
    /\ pc = "awaitClose"
    /\ exitCode' = code
    /\ IF code # 0
       THEN responses' = Append(responses, ModelFailedResponse(pythonError))
       ELSE UNCHANGED responses
    /\ pc' = "parse"
    /\ UNCHANGED <<doc, stockData, spawned, stdinLog, procOut, procErr,
                   pythonOutput, pythonError, parseLog, predictions, priceIdx,
                   factorIdx, pendingRecord, savedPricePredictions,
                   savedFactorPredictions, sinkLog, predictionTable,
                   factorTable, clock>>
    /\ UNCHANGED <<outChunks, errChunks, other, cur, appVars>>

\* pythonProcess.on('close', resolve) and the exit-code test after the await.
Close(code) ==
    /\ pc = "awaitClose"
    /\ exitCode' = code
    /\ IF code # 0
       THEN /\ responses' = Append(responses, ModelFailedResponse(pythonError))
            /\ pc' = "done"
       ELSE /\ pc' = "parse"
            /\ UNCHANGED responses
    /\ UNCHANGED <<doc, stockData, spawned, stdinLog, procOut, procErr,
                   pythonOutput, pythonError, parseLog, predictions, priceIdx,
                   factorIdx, pendingRecord, savedPricePredictions,
                   savedFactorPredictions, sinkLog, predictionTable,
                   factorTable, clock>>
    /\ UNCHANGED <<outChunks, errChunks, other, cur, appVars>>

\* ------------------------------------------------------- output recovery
\* Variant of jsonEndIndex without the + 1.
JsonEndIndex_NoPlusOne(s) == LastIndexOfClose(s)

\* const jsonEndIndex = pythonOutput.lastIndexOf('}') + 1
JsonEndIndex(s) == LastIndexOfClose(s) + 1

\* jsonStartIndex >= 0 && jsonEndIndex > jsonStartIndex
HasJsonPart(s) == IndexOfOpen(s) >= 0 /\ JsonEndIndex(s) > IndexOfOpen(s)

\* Variant of the recovery that falls back to an empty object when the
\* output has no JSON part or the part does not decode.
RecoverOutput_DefaultEmpty(out, d) ==
    LET direct == JSONparse(out, d)
        jsonStr == Substring(out, IndexOfOpen(out), JsonEndIndex(out))
        second == JSONparse(jsonStr, d)
    IN  IF direct.ok
        THEN [ok |-> TRUE, value |-> direct.value, error |-> "none",
              parsed |-> <<out>>]
        ELSE IF HasJsonPart(out)
        THEN [ok |-> TRUE,
              value |-> IF second.ok THEN second.value ELSE EmptyObject,
              error |-> "none", parsed |-> <<out, jsonStr>>]
        ELSE [ok |-> TRUE, value |-> EmptyObject, error |-> "none",
              parsed |-> <<out>>]

\* The try / catch around JSON.parse(pythonOutput): the decoded value, or the
\* message of the error thrown, and the arguments JSON.parse was called with.
RecoverOutput(out, d) ==
    LET direct == JSONparse(out, d)
        jsonStr == Substring(out, IndexOfOpen(out), JsonEndIndex(out))
        second == JSONparse(jsonStr, d)
    IN  IF direct.ok
        THEN [ok |-> TRUE, value |-> direct.value, error |-> "none",
              parsed |-> <<out>>]
        ELSE IF HasJsonPart(out)
        THEN IF second.ok
             THEN [ok |-> TRUE, value |-> second.value, error |-> "none",
                   parsed |-> <<out, jsonStr>>]
             ELSE [ok |-> FALSE, value |-> EmptyObject, error |-> "SyntaxError",
                   parsed |-> <<out, jsonStr>>]
        ELSE [ok |-> FALSE, value |-> EmptyObject, error |-> "NoJsonFound",
              parsed |-> <<out>>]

\* catch (parseError): the 500 response of the inner try, and the handler ends.
InnerCatch(msg) ==
    /\ responses' = Append(responses, ParseFailedResponse(msg, pythonOutput))
    /\ pc' = "done"

\* Lines 75-91: decode pythonOutput, directly or from its JSON part.
ParseOutput ==
    /\ pc = "parse"
    /\ LET r == RecoverOutput(pythonOutput, doc)
       IN  /\ parseLog' = parseLog \o r.parsed
           /\ IF r.ok
              THEN /\ predictions' = <<r.value>>
                   /\ pc' = "validate"
                   /\ UNCHANGED responses
              ELSE /\ InnerCatch(r.error)
                   /\ UNCHANGED predictions
    /\ UNCHANGED <<doc, stockData, spawned, stdinLog, procOut, procErr,
                   pythonOutput, pythonError, exitCode, priceIdx, factorIdx,
                   pendingRecord, savedPricePredictions, savedFactorPredictions,
                   sinkLog, predictionTable, factorTable, clock>>
    /\ UNCHANGED <<outChunks, errChunks, other, cur, appVars>>

\* --------------------------------------------------------------- validation
\* JavaScript truthiness of a member value (an absent key reads undefined).
Truthy(v) == v.kind \in {"noniter", "seq"}

\* Variant of the check that rejects only when both results are missing
\* (&& in place of ||).
MissingFields_Both(p) == ~Truthy(p.final_predictions) /\ ~Truthy(p.factor_predictions)

\* !predictions.final_predictions || !predictions.factor_predictions
MissingFields(p) == ~Truthy(p.final_predictions) \/ ~Truthy(p.factor_predictions)

\* Variant of the check that answers the failure and goes on to the price
\* loop all the same (the throw replaced by a response without return).
Validate_AnswerAndGoOn ==
    /\ pc = "validate"
    /\ IF MissingFields(predictions[1])
       THEN responses' = Append(responses,
                ParseFailedResponse("MissingFields", pythonOutput))
       ELSE UNCHANGED responses
    /\ savedPricePredictions' = <<>>
    /\ priceIdx' = 1
    /\ pc' = "priceLoop"
    /\ UNCHANGED <<doc, stockData, spawned, stdinLog, procOut, procErr,
                   pythonOutput, pythonError, exitCode, parseLog, predictions,
                   factorIdx, pendingRecord, savedFactorPredictions, sinkLog,
                   predictionTable, factorTable, clock>>
    /\ UNCHANGED <<outChunks, errChunks, other, cur, appVars>>

\* Lines 93-99: the check for the two results, then the price loop begins.
Validate ==
    /\ pc = "validate"
    /\ IF MissingFields(predictions[1])
       THEN /\ InnerCatch("MissingFields")
            /\ UNCHANGED <<priceIdx, savedPricePredictions>>
       ELSE /\ savedPricePredictions' = <<>>
            /\ priceIdx' = 1
            /\ pc' = "priceLoop"
            /\ UNCHANGED responses
    /\ UNCHANGED <<doc, stockData, spawned, stdinLog, procOut, procErr,
                   pythonOutput, pythonError, exitCode, parseLog, predictions,
                   factorIdx, pendingRecord, savedFactorPredictions, sinkLog,
                   predictionTable, factorTable, clock>>
    /\ UNCHANGED <<outChunks, errChunks, other, cur, appVars>>

\* -------------------------------------------------------------- persistence
\* Variant of the price mapping that keeps the creation time the program
\* supplied when the entry has one.
PriceRecord_KeepCreatedAt(prediction, now) ==
    [stockId |-> prediction.stockid, date |-> prediction.date,
     predictedPrice |-> prediction.label,
     createdAt |-> IF "createdAt" \in DOMAIN prediction
                   THEN prediction.createdAt ELSE now]

\* The record built from an entry of final_predictions.
PriceRecord(prediction, now) ==
    [stockId |-> prediction.stockid, date |-> prediction.date,
     predictedPrice |-> prediction.label, createdAt |-> now]

\* The record built from an entry of factor_predictions.
FactorRecord(prediction) ==
    [stockId |-> prediction.stockid, date |-> prediction.date,
     TTM |-> prediction.y0, PE |-> prediction.y1,
     PB |-> prediction.y2, PCF |-> prediction.y3]

\* The sink's single-record writes, when they succeed.
savePrediction(table, record) == Append(table, record)
saveFactorPrediction(table, record) == Append(table, record)

SinkEvent(op, ev, record) == [op |-> op, ev |-> ev, record |-> record]

\* Variant of the price loop that calls savePrediction without awaiting it:
\* the record is pushed and the next iteration starts at once.
PriceLoopNext_NoAwait ==
    /\ pc = "priceLoop"
    /\ LET fp == predictions[1].final_predictions
       IN  IF fp.kind # "seq"
           THEN /\ InnerCatch("NotIterable")
                /\ UNCHANGED <<sinkLog, factorIdx, priceIdx,
                               savedPricePredictions, savedFactorPredictions>>
           ELSE IF priceIdx > Len(fp.items)
           THEN /\ savedFactorPredictions' = <<>>
                /\ factorIdx' = 1
                /\ pc' = "factorLoop"
                /\ UNCHANGED <<sinkLog, responses, priceIdx,
                               savedPricePredictions>>
           ELSE /\ sinkLog' = Append(sinkLog,
                       SinkEvent("savePrediction", "call",
                                 PriceRecord(fp.items[priceIdx], clock)))
                /\ savedPricePredictions' = Append(savedPricePredictions,
                       PriceRecord(fp.items[priceIdx], clock))
                /\ priceIdx' = priceIdx + 1
                /\ UNCHANGED <<pc, factorIdx, savedFactorPredictions, responses>>
    /\ UNCHANGED <<doc, stockData, spawned, stdinLog, procOut, procErr,
                   pythonOutput, pythonError, exitCode, parseLog, predictions,
                   pendingRecord, predictionTable, factorTable, clock>>
    /\ UNCHANGED <<outChunks, errChunks, other, cur, appVars>>

\* for (const prediction of predictions.final_predictions): the next
\* iteration builds the record and calls savePrediction; iterating a value
\* that is not iterable throws; after the last entry the factor loop begins.
PriceLoopNext ==
    /\ pc = "priceLoop"
    /\ LET fp == predictions[1].final_predictions
       IN  IF fp.kind # "seq"
           THEN /\ InnerCatch("NotIterable")
                /\ UNCHANGED <<pendingRecord, sinkLog, factorIdx,
                               savedFactorPredictions>>
           ELSE IF priceIdx > Len(fp.items)
           THEN /\ savedFactorPredictions' = <<>>
                /\ factorIdx' = 1
                /\ pc' = "factorLoop"
                /\ UNCHANGED <<pendingRecord, sinkLog, responses>>
           ELSE /\ pendingRecord' = <<PriceRecord(fp.items[priceIdx], clock)>>
                /\ sinkLog' = Append(sinkLog,
                       SinkEvent("savePrediction", "call",
                                 PriceRecord(fp.items[priceIdx], clock)))
                /\ pc' = "awaitSavePrediction"
                /\ UNCHANGED <<factorIdx, savedFactorPredictions, responses>>
    /\ UNCHANGED <<doc, stockData, spawned, stdinLog, procOut, procErr,
                   pythonOutput, pythonError, exitCode, parseLog, predictions,
                   priceIdx, savedPricePredictions, predictionTable,
                   factorTable, clock>>
    /\ UNCHANGED <<outChunks, errChunks, other, cur, appVars>>

\* Variant of the resolved write that does not push the record onto
\* savedPricePredictions.
SavePredictionResolved_NoPush ==
    /\ pc = "awaitSavePrediction"
    /\ predictionTable' = savePrediction(predictionTable, pendingRecord[1])
    /\ sinkLog' = Append(sinkLog,
           SinkEvent("savePrediction", "return", pendingRecord[1]))
    /\ pendingRecord' = <<>>
    /\ priceIdx' = priceIdx + 1
    /\ clock' = clock + 1
    /\ pc' = "priceLoop"
    /\ UNCHANGED <<doc, stockData, spawned, stdinLog, procOut, procErr,
                   pythonOutput, pythonError, exitCode, parseLog, predictions,
                   factorIdx, savedPricePredictions, savedFactorPredictions,
                   factorTable, responses>>
    /\ UNCHANGED <<outChunks, errChunks, other, cur, appVars>>

\* await database.savePrediction(predictionRecord) resolves: the record is
\* written, pushed onto savedPricePredictions, and the loop goes on.
SavePredictionResolved ==
    /\ pc = "awaitSavePrediction"
    /\ predictionTable' = savePrediction(predictionTable, pendingRecord[1])
    /\ sinkLog' = Append(sinkLog,
           SinkEvent("savePrediction", "return", pendingRecord[1]))
    /\ savedPricePredictions' = Append(savedPricePredictions, pendingRecord[1])
    /\ pendingRecord' = <<>>
    /\ priceIdx' = priceIdx + 1
    /\ clock' = clock + 1
    /\ pc' = "priceLoop"
    /\ UNCHANGED <<doc, stockData, spawned, stdinLog, procOut, procErr,
                   pythonOutput, pythonError, exitCode, parseLog, predictions,
                   factorIdx, savedFactorPredictions, factorTable, responses>>
    /\ UNCHANGED <<outChunks, errChunks, other, cur, appVars>>

\* Variant of the rejected write in which the loop catches the error itself
\* and goes on with the next entry.
SavePredictionRejected_Continue ==
    /\ pc = "awaitSavePrediction"
    /\ sinkLog' = Append(sinkLog,
           SinkEvent("savePrediction", "raise", pendingRecord[1]))
    /\ pendingRecord' = <<>>
    /\ priceIdx' = priceIdx + 1
    /\ clock' = clock + 1
    /\ pc' = "priceLoop"
    /\ UNCHANGED <<doc, stockData, spawned, stdinLog, procOut, procErr,
                   pythonOutput, pythonError, exitCode, parseLog, predictions,
                   factorIdx, savedPricePredictions, savedFactorPredictions,
                   predictionTable, factorTable, responses>>
    /\ UNCHANGED <<outChunks, errChunks, other, cur, appVars>>

\* await database.savePrediction(predictionRecord) rejects: the inner catch.
SavePredictionRejected ==
    /\ pc = "awaitSavePrediction"
    /\ sinkLog' = Append(sinkLog,
           SinkEvent("savePrediction", "raise", pendingRecord[1]))
    /\ pendingRecord' = <<>>
    /\ clock' = clock + 1
    /\ InnerCatch("SinkError")
    /\ UNCHANGED <<doc, stockData, spawned, stdinLog, procOut, procErr,
                   pythonOutput, pythonError, exitCode, parseLog, predictions,
                   priceIdx, factorIdx, savedPricePredictions,
                   savedFactorPredictions, predictionTable, factorTable>>
    /\ UNCHANGED <<outChunks, errChunks, other, cur, appVars>>

\* for (const prediction of predictions.factor_predictions): as the price
\* loop; after the last entry the success summary is sent.
FactorLoopNext ==
    /\ pc = "factorLoop"
    /\ LET fp == predictions[1].factor_predictions
       IN  IF fp.kind # "seq"
           THEN /\ InnerCatch("NotIterable")
                /\ UNCHANGED <<pendingRecord, sinkLog>>
           ELSE IF factorIdx > Len(fp.items)
           THEN /\ responses' = Append(responses,
                       SuccessResponse(savedPricePredictions,
                                       savedFactorPredictions))
                /\ pc' = "done"
                /\ UNCHANGED <<pendingRecord, sinkLog>>
           ELSE /\ pendingRecord' = <<FactorRecord(fp.items[factorIdx])>>
                /\ sinkLog' = Append(sinkLog,
                       SinkEvent("saveFactorPrediction", "call",
                                 FactorRecord(fp.items[factorIdx])))
                /\ pc' = "awaitSaveFactorPrediction"
                /\ UNCHANGED responses
    /\ UNCHANGED <<doc, stockData, spawned, stdinLog, procOut, procErr,
                   pythonOutput, pythonError, exitCode, parseLog, predictions,
                   priceIdx, factorIdx, savedPricePredictions,
                   savedFactorPredictions, predictionTable, factorTable, clock>>
    /\ UNCHANGED <<outChunks, errChunks, other, cur, appVars>>

\* await database.saveFactorPrediction(predictionRecord) resolves.
SaveFactorPredictionResolved ==
    /\ pc = "awaitSaveFactorPrediction"
    /\ factorTable' = saveFactorPrediction(factorTable, pendingRecord[1])
    /\ sinkLog' = Append(sinkLog,
           SinkEvent("saveFactorPrediction", "return", pendingRecord[1]))
    /\ savedFactorPredictions' = Append(savedFactorPredictions, pendingRecord[1])
    /\ pendingRecord' = <<>>
    /\ factorIdx' = factorIdx + 1
    /\ clock' = clock + 1
    /\ pc' = "factorLoop"
    /\ UNCHANGED <<doc, stockData, spawned, stdinLog, procOut, procErr,
                   pythonOutput, pythonError, exitCode, parseLog, predictions,
                   priceIdx, savedPricePredictions, predictionTable, responses>>
    /\ UNCHANGED <<outChunks, errChunks, other, cur, appVars>>

\* await database.saveFactorPrediction(predictionRecord) rejects.
SaveFactorPredictionRejected ==
    /\ pc = "awaitSaveFactorPrediction"
    /\ sinkLog' = Append(sinkLog,
           SinkEvent("saveFactorPrediction", "raise", pendingRecord[1]))
    /\ pendingRecord' = <<>>
    /\ clock' = clock + 1
    /\ InnerCatch("SinkError")
    /\ UNCHANGED <<doc, stockData, spawned, stdinLog, procOut, procErr,
                   pythonOutput, pythonError, exitCode, parseLog, predictions,
                   priceIdx, factorIdx, savedPricePredictions,
                   savedFactorPredictions, predictionTable, factorTable>>
    /\ UNCHANGED <<outChunks, errChunks, other, cur, appVars>>

\* ------------------------------------------------------------ specification
Next ==
    \/ Trigger
    \/ StocksRejected
    \/ \E sd \in StockResults : StocksResolved(sd)
    \/ \E lex \in OutLexemes : StdoutData(<<lex>>)
    \/ \E chunk \in ErrChunks : StderrData(<<chunk>>)
    \/ \E code \in ExitCodes : Close(code)
    \/ ParseOutput
    \/ Validate
    \/ PriceLoopNext
    \/ SavePredictionResolved
    \/ SavePredictionRejected
    \/ FactorLoopNext
    \/ SaveFactorPredictionResolved
    \/ SaveFactorPredictionRejected

Spec == Init /\ [][Next]_vars

\* ------------------------------------------------------ two requests
\* The positions at which the handler is suspended (not entered yet, at one
\* of its awaits, or ended), where the event loop can run the other request.
SuspensionPoints ==
    {"idle", "awaitStocks", "awaitClose", "awaitSavePrediction",
     "awaitSaveFactorPrediction", "done"}

\* The event loop turns to the other request's handler.  Each handler has its
\* own closure (its process, buffers, loop positions and res); the document
\* the program computes, the sink's tables and the clock are shared.
Switch ==
    /\ pc \in SuspensionPoints
    /\ other' = RunState
    /\ cur' = 3 - cur
    /\ pc' = other.pc
    /\ stockData' = other.stockData
    /\ spawned' = other.spawned
    /\ stdinLog' = other.stdinLog
    /\ procOut' = other.procOut
    /\ procErr' = other.procErr
    /\ pythonOutput' = other.pythonOutput
    /\ pythonError' = other.pythonError
    /\ exitCode' = other.exitCode
    /\ parseLog' = other.parseLog
    /\ predictions' = other.predictions
    /\ priceIdx' = other.priceIdx
    /\ factorIdx' = other.factorIdx
    /\ pendingRecord' = other.pendingRecord
    /\ savedPricePredictions' = other.savedPricePredictions
    /\ savedFactorPredictions' = other.savedFactorPredictions
    /\ sinkLog' = other.sinkLog
    /\ responses' = other.responses
    /\ outChunks' = other.outChunks
    /\ errChunks' = other.errChunks
    /\ UNCHANGED <<doc, predictionTable, factorTable, clock, appVars>>

\* Two requests in flight: the result documents, datasets and output lexemes
\* the two programs are given and emit.
TwoDocuments ==
    {[final_predictions |-> Array(<<RawPrice(1)>>),
      factor_predictions |-> Array(<<RawFactor(1)>>)],
     [final_predictions |-> Array(<<RawPrice(1)>>),
      factor_predictions |-> Absent]}
TwoStockResults == {Rows(<<>>), Rows(<<"row1">>)}
TwoOutLexemes == {"w", "D"}

InitTwo == Init /\ doc \in TwoDocuments

NextTwo ==
    \/ Switch
    \/ Trigger
    \/ \E sd \in TwoStockResults : StocksResolved(sd)
    \/ \E lex \in TwoOutLexemes : StdoutData(<<lex>>)
    \/ \E code \in ExitCodes : Close(code)
    \/ ParseOutput
    \/ Validate
    \/ PriceLoopNext
    \/ SavePredictionResolved
    \/ SavePredictionRejected
    \/ FactorLoopNext
    \/ SaveFactorPredictionResolved
    \/ SaveFactorPredictionRejected

SpecTwo == InitTwo /\ [][NextTwo]_vars

\* ------------------------------------------------------ long results
\* Runs whose result document holds prediction sequences shorter than, as
\* long as and longer than the samples of the success summary.
LongLengths == {0, SampleLimit - 1, SampleLimit, MaxLong}
LongDocuments ==
    {[final_predictions |-> Array([i \in 1..n |-> RawPrice(i)]),
      factor_predictions |-> Array([i \in 1..m |-> RawFactor(i)])] :
        n \in LongLengths, m \in LongLengths}

InitLong == doc \in LongDocuments /\ InitHandler /\ InitApp

SpecLong == InitLong /\ [][Next]_vars

\* ------------------------------------------------------ launch failure
\* The program cannot be started (no python on the path): spawn returns a
\* child that emits 'error' on a later tick.  The handler registers no
\* 'error' listener on the child or on its stdin, and the application no
\* uncaughtException handler, so the event is thrown out of the event loop
\* and ends the server process while the handler waits for 'close'.
SpawnError ==
    /\ pc = "awaitClose"
    /\ procOut = <<>>
    /\ procErr = <<>>
    /\ pc' = "crashed"
    /\ UNCHANGED <<doc, stockData, spawned, stdinLog, procOut, procErr,
                   pythonOutput, pythonError, exitCode, parseLog, predictions,
                   priceIdx, factorIdx, pendingRecord, savedPricePredictions,
                   savedFactorPredictions, sinkLog, predictionTable,
                   factorTable, responses, clock>>
    /\ UNCHANGED <<outChunks, errChunks, other, cur, appVars>>

NextLaunch == Next \/ SpawnError

SpecLaunch == InitTwo /\ [][NextLaunch]_vars

\* ------------------------------------------------------ chunked output
\* The texts the program writes to stdout and to stderr; the pipe delivers
\* each of them to the listeners cut into chunks at arbitrary positions.
ChunkedOutputs == {<<"w", "D">>, <<"{", "}">>, <<"L", "T">>}
ChunkedErrors == {<<"L", "T">>}
ChunkDocuments ==
    {[final_predictions |-> Array(<<RawPrice(1)>>),
      factor_predictions |-> Array(<<RawFactor(1)>>)]}
ChunkStockResults == {Rows(<<"row1">>)}

IsPrefix(s, t) == Len(s) <= Len(t) /\ SubSeq(t, 1, Len(s)) = s
\* The next k lexemes of the text, after those already emitted.
NextChunkOf(emitted, whole, k) == SubSeq(whole, Len(emitted) + 1, Len(emitted) + k)

StdoutChunk ==
    \E whole \in ChunkedOutputs : \E k \in 1..Len(whole) :
        /\ IsPrefix(procOut, whole)
        /\ Len(procOut) + k <= Len(whole)
        /\ StdoutData(NextChunkOf(procOut, whole, k))

StderrChunk ==
    \E whole \in ChunkedErrors : \E k \in 1..Len(whole) :
        /\ IsPrefix(procErr, whole)
        /\ Len(procErr) + k <= Len(whole)
        /\ StderrData(NextChunkOf(procErr, whole, k))

InitChunks == doc \in ChunkDocuments /\ InitHandler /\ InitApp

NextChunks ==
    \/ Switch
    \/ Trigger
    \/ \E sd \in ChunkStockResults : StocksResolved(sd)
    \/ StdoutChunk
    \/ StderrChunk
    \/ \E code \in ExitCodes : Close(code)
    \/ ParseOutput
    \/ Validate
    \/ PriceLoopNext
    \/ SavePredictionResolved
    \/ SavePredictionRejected
    \/ FactorLoopNext
    \/ SaveFactorPredictionResolved
    \/ SaveFactorPredictionRejected

SpecChunks == InitChunks /\ [][NextChunks]_vars

\* The concatenation of the chunks, in arrival order.
RECURSIVE Flatten(_)
Flatten(chunks) ==
    IF chunks = <<>> THEN <<>> ELSE Head(chunks) \o Flatten(Tail(chunks))

\* ------------------------------------------------------ pipes
\* The program's writes and the listeners' calls taken apart: the program
\* writes into the pipe (procOut, procErr) and the stream hands what it has
\* read to the 'data' listener in chunks of its own cutting (outChunks,
\* errChunks).  The listeners are registered in the stretch that spawns the
\* program and stay registered after the handler has gone on.
PipedOut == SubSeq(procOut, Len(Flatten(outChunks)) + 1, Len(procOut))
PipedErr == SubSeq(procErr, Len(Flatten(errChunks)) + 1, Len(procErr))

\* The program, running, writes to its stdout.
ProcessWritesStdout ==
    \E whole \in ChunkedOutputs : \E k \in 1..Len(whole) :
        /\ pc = "awaitClose"
        /\ IsPrefix(procOut, whole)
        /\ Len(procOut) + k <= Len(whole)
        /\ procOut' = procOut \o NextChunkOf(procOut, whole, k)
        /\ UNCHANGED <<pc, doc, stockData, spawned, stdinLog, procErr,
                       pythonOutput, pythonError, exitCode, parseLog,
                       predictions, priceIdx, factorIdx, pendingRecord,
                       savedPricePredictions, savedFactorPredictions, sinkLog,
                       predictionTable, factorTable, responses, clock,
                       outChunks, errChunks, other, cur, appVars>>

\* The program, running, writes to its stderr.
ProcessWritesStderr ==
    \E whole \in ChunkedErrors : \E k \in 1..Len(whole) :
        /\ pc = "awaitClose"
        /\ IsPrefix(procErr, whole)
        /\ Len(procErr) + k <= Len(whole)
        /\ procErr' = procErr \o NextChunkOf(procErr, whole, k)
        /\ UNCHANGED <<pc, doc, stockData, spawned, stdinLog, procOut,
                       pythonOutput, pythonError, exitCode, parseLog,
                       predictions, priceIdx, factorIdx, pendingRecord,
                       savedPricePredictions, savedFactorPredictions, sinkLog,
                       predictionTable, factorTable, responses, clock,
                       outChunks, errChunks, other, cur, appVars>>

\* pythonProcess.stdout.on('data'): the stream hands the listener the next
\* chunk of what is in the pipe, wherever the handler is.
PipeStdoutData ==
    \E k \in 1..Len(PipedOut) :
        LET chunk == SubSeq(PipedOut, 1, k)
        IN  /\ spawned > 0
            /\ pythonOutput' = pythonOutput \o toString(chunk)
            /\ outChunks' = Append(outChunks, chunk)
            /\ UNCHANGED <<pc, doc, stockData, spawned, stdinLog, procOut,
                           procErr, pythonError, exitCode, parseLog,
                           predictions, priceIdx, factorIdx, pendingRecord,
                           savedPricePredictions, savedFactorPredictions,
                           sinkLog, predictionTable, factorTable, responses,
                           clock, errChunks, other, cur, appVars>>

\* pythonProcess.stderr.on('data'): likewise for stderr.
PipeStderrData ==
    \E k \in 1..Len(PipedErr) :
        LET chunk == SubSeq(PipedErr, 1, k)
        IN  /\ spawned > 0
            /\ pythonError' = pythonError \o toString(chunk)
            /\ errChunks' = Append(errChunks, chunk)
            /\ UNCHANGED <<pc, doc, stockData, spawned, stdinLog, procOut,
                           procErr, pythonOutput, exitCode, parseLog,
                           predictions, priceIdx, factorIdx, pendingRecord,
                           savedPricePredictions, savedFactorPredictions,
                           sinkLog, predictionTable, factorTable, responses,
                           clock, outChunks, other, cur, appVars>>

\* Variant that resolves the wait on the child's 'exit' event, which is
\* emitted when the program has ended, whatever is left in the pipes.
PipeClose_OnExit(code) == Close(code)

\* pythonProcess.on('close', resolve): 'close' is emitted when the program
\* has ended and its stdio streams have been closed, that is, after both
\* streams have handed over all they held.
PipeClose(code) ==
    /\ PipedOut = <<>>
    /\ PipedErr = <<>>
    /\ Close(code)

NextPipe ==
    \/ Trigger
    \/ \E sd \in ChunkStockResults : StocksResolved(sd)
    \/ ProcessWritesStdout
    \/ ProcessWritesStderr
    \/ PipeStdoutData
    \/ PipeStderrData
    \/ \E code \in ExitCodes : PipeClose(code)
    \/ ParseOutput
    \/ Validate
    \/ PriceLoopNext
    \/ SavePredictionResolved
    \/ SavePredictionRejected
    \/ FactorLoopNext
    \/ SaveFactorPredictionResolved
    \/ SaveFactorPredictionRejected

SpecPipe == InitChunks /\ [][NextPipe]_vars

\* ------------------------------------------------------ mixed entries
\* Raw entries that carry the fields of both kinds and a creation time of
\* the program's own (a time no clock of the run shows).
MixedEntry(n) ==
    [stockid |-> n, date |-> 30 + n, label |-> 100 + n,
     y0 |-> 1000 + n, y1 |-> 2000 + n, y2 |-> 3000 + n, y3 |-> 4000 + n,
     createdAt |-> 900 + n]
MixedDocuments ==
    [final_predictions : {Array(<<MixedEntry(1)>>),
                          Array(<<RawPrice(1), MixedEntry(2)>>)},
     factor_predictions : {Array(<<MixedEntry(1)>>),
                           Array(<<MixedEntry(2), RawFactor(1)>>)}]

InitMixed == doc \in MixedDocuments /\ InitHandler /\ InitApp

SpecMixed == InitMixed /\ [][Next]_vars

\* ------------------------------------------------------ long output
\* Programs that print a long run of text (each "w" one character) around
\* the echo limit, before or after a few other lexemes.
EchoLengths == {OutputEchoLimit - 1, OutputEchoLimit, OutputEchoLimit + 1}
LongOutput(n) == [i \in 1..n |-> "w"]
EchoLexemes == {"{", "}", "D"}

NextEcho ==
    \/ Trigger
    \/ \E sd \in ChunkStockResults : StocksResolved(sd)
    \/ \E lex \in EchoLexemes : StdoutData(<<lex>>)
    \/ \E n \in EchoLengths : StdoutData(LongOutput(n))
    \/ \E code \in ExitCodes : Close(code)
    \/ ParseOutput
    \/ Validate
    \/ PriceLoopNext
    \/ SavePredictionResolved
    \/ SavePredictionRejected
    \/ FactorLoopNext
    \/ SaveFactorPredictionResolved
    \/ SaveFactorPredictionRejected

SpecEcho == InitChunks /\ [][NextEcho]_vars

\* ------------------------------------------------------ middleware
\* Requests to the prediction route: the Authorization header is missing,
\* of another scheme, or "Bearer <token>".  A token is what jwt.verify makes
\* of it (verified, expired, malformed or wrongly signed, rejected for
\* another reason) and the user id and role it was signed with.
UserIds == {1, 2}
Roles == {"admin", "user"}
Tokens ==
    [verdict : {"ok", "expired", "invalid", "other"}, userId : UserIds, role : Roles]
AuthHeaders ==
    {NoHeader, [scheme |-> "Basic", token |-> NoToken]}
        \cup {[scheme |-> "Bearer", token |-> t] : t \in Tokens}

\* A row of Person; selectedStocks is the list stored as comma-joined text
\* (the empty text for the empty list).
PersonRow(id, account, role, stocks) ==
    [id |-> id, account |-> account, role |-> role, selectedStocks |-> stocks]
\* The Person tables a request can meet: the token's user missing (deleted
\* since the token was issued), present as admin or as plain user.
AuthTables ==
    {<<>>,
     <<PersonRow(1, "a1", "admin", <<>>)>>,
     <<PersonRow(1, "a1", "user", <<>>)>>,
     <<PersonRow(1, "a1", "user", <<>>), PersonRow(2, "a2", "admin", <<>>)>>}

\* SELECT ... FROM Person WHERE id = @id; recordset[0]: <<>> when undefined.
readPersonbyId(table, id) == SelectSeq(table, LAMBDA row : row.id = id)

\* authHeader && authHeader.startsWith('Bearer ')
StartsWithBearer(h) == h.scheme = "Bearer"

\* jwt.verify(token, JWT_SECRET): the decoded payload, or the error thrown.
jwtVerify(token) ==
    [ok |-> token.verdict = "ok",
     name |-> CASE token.verdict = "expired" -> "TokenExpiredError"
                [] token.verdict = "invalid" -> "JsonWebTokenError"
                [] OTHER -> "NotBeforeError",
     decoded |-> [userId |-> token.userId, role |-> token.role]]

\* The responses of authenticate and of adminOnly.
NoTokenResponse == [status |-> 401, error |-> "NoValidToken", code |-> "none"]
TokenExpiredResponse == [status |-> 401, error |-> "TokenExpired", code |-> "token_expired"]
InvalidTokenResponse == [status |-> 403, error |-> "InvalidToken", code |-> "invalid_token"]
AuthFailedResponse == [status |-> 403, error |-> "AuthFailed", code |-> "auth_failed"]
NoUserResponse == [status |-> 403, error |-> "NoUserOrInvalidToken", code |-> "none"]
InternalErrorResponse == [status |-> 500, error |-> "InternalError", code |-> "none"]
NotAuthenticatedResponse ==
    [status |-> 401, error |-> "NotAuthenticated", code |-> "not_authenticated"]
AdminRequiredResponse ==
    [status |-> 403, error |-> "AdminRequired", code |-> "admin_required"]

\* catch (err) of authenticate: the response by the name of the error.
VerifyErrorResponse(name) ==
    IF name = "TokenExpiredError" THEN TokenExpiredResponse
    ELSE IF name = "JsonWebTokenError" THEN InvalidTokenResponse
    ELSE AuthFailedResponse

\* A request with header h enters authenticate: the header test, the
\* verification of the token, then the call of getDbConnection.
Authenticate(h) ==
    /\ mw = "none"
    /\ authHeader' = h
    /\ IF ~StartsWithBearer(h)
       THEN /\ responses' = Append(responses, NoTokenResponse)
            /\ mw' = "sent"
       ELSE IF ~jwtVerify(h.token).ok
       THEN /\ responses' = Append(responses,
                                   VerifyErrorResponse(jwtVerify(h.token).name))
            /\ mw' = "sent"
       ELSE /\ mw' = "awaitDbConnection"
            /\ UNCHANGED responses
    /\ UNCHANGED <<pc, doc, stockData, spawned, stdinLog, procOut, procErr,
                   pythonOutput, pythonError, exitCode, parseLog, predictions,
                   priceIdx, factorIdx, pendingRecord, savedPricePredictions,
                   savedFactorPredictions, sinkLog, predictionTable,
                   factorTable, clock, outChunks, errChunks, other, cur>>
    /\ UNCHANGED <<reqUser, nextCalls, Person, calls, database, dbInstance, instances, app>>

\* await getDbConnection() returns the connection.
GetDbConnectionResolved ==
    /\ mw = "awaitDbConnection"
    /\ mw' = "awaitReadPerson"
    /\ UNCHANGED <<handlerVars, authHeader, reqUser, nextCalls, Person, calls,
                   database, dbInstance, instances, app>>

\* Variant of the user test whose 403 branch lacks the stop: the request is
\* answered and handed on as well.
ReadPersonResolved_NextAnyway ==
    /\ mw = "awaitReadPerson"
    /\ LET decoded == jwtVerify(authHeader.token).decoded
           user == readPersonbyId(Person, decoded.userId)
       IN  IF user = <<>>
           THEN /\ responses' = Append(responses, NoUserResponse)
                /\ nextCalls' = nextCalls + 1
                /\ mw' = "adminOnly"
                /\ UNCHANGED reqUser
           ELSE /\ reqUser' = <<[id |-> user[1].id, role |-> user[1].role]>>
                /\ nextCalls' = nextCalls + 1
                /\ mw' = "adminOnly"
                /\ UNCHANGED responses
    /\ UNCHANGED <<pc, doc, stockData, spawned, stdinLog, procOut, procErr,
                   pythonOutput, pythonError, exitCode, parseLog, predictions,
                   priceIdx, factorIdx, pendingRecord, savedPricePredictions,
                   savedFactorPredictions, sinkLog, predictionTable,
                   factorTable, clock, outChunks, errChunks, other, cur>>
    /\ UNCHANGED <<authHeader, Person, calls, database, dbInstance, instances, app>>

\* await db.readPersonbyId(decoded.userId) returns: without a user the
\* request is answered 403; otherwise req.user is set from the row and next
\* is called.
ReadPersonResolved ==
    /\ mw = "awaitReadPerson"
    /\ LET decoded == jwtVerify(authHeader.token).decoded
           user == readPersonbyId(Person, decoded.userId)
       IN  IF user = <<>>
           THEN /\ responses' = Append(responses, NoUserResponse)
                /\ mw' = "sent"
                /\ UNCHANGED <<reqUser, nextCalls>>
           ELSE /\ reqUser' = <<[id |-> user[1].id, role |-> user[1].role]>>
                /\ nextCalls' = nextCalls + 1
                /\ mw' = "adminOnly"
                /\ UNCHANGED responses
    /\ UNCHANGED <<pc, doc, stockData, spawned, stdinLog, procOut, procErr,
                   pythonOutput, pythonError, exitCode, parseLog, predictions,
                   priceIdx, factorIdx, pendingRecord, savedPricePredictions,
                   savedFactorPredictions, sinkLog, predictionTable,
                   factorTable, clock, outChunks, errChunks, other, cur>>
    /\ UNCHANGED <<authHeader, Person, calls, database, dbInstance, instances, app>>

\* The query of readPersonbyId fails: catch (dbErr) answers 500.
ReadPersonRejected ==
    /\ mw = "awaitReadPerson"
    /\ responses' = Append(responses, InternalErrorResponse)
    /\ mw' = "sent"
    /\ UNCHANGED <<pc, doc, stockData, spawned, stdinLog, procOut, procErr,
                   pythonOutput, pythonError, exitCode, parseLog, predictions,
                   priceIdx, factorIdx, pendingRecord, savedPricePredictions,
                   savedFactorPredictions, sinkLog, predictionTable,
                   factorTable, clock, outChunks, errChunks, other, cur>>
    /\ UNCHANGED <<authHeader, reqUser, nextCalls, Person, calls, database, dbInstance,
                   instances, app>>

\* Variant of adminOnly that trusts the role the token was signed with.
AdminOnly_TokenRole ==
    /\ mw = "adminOnly"
    /\ IF reqUser = <<>>
       THEN /\ responses' = Append(responses, NotAuthenticatedResponse)
            /\ mw' = "sent"
       ELSE IF authHeader.token.role # "admin"
       THEN /\ responses' = Append(responses, AdminRequiredResponse)
            /\ mw' = "sent"
       ELSE /\ mw' = "handler"
            /\ UNCHANGED responses
    /\ UNCHANGED <<pc, doc, stockData, spawned, stdinLog, procOut, procErr,
                   pythonOutput, pythonError, exitCode, parseLog, predictions,
                   priceIdx, factorIdx, pendingRecord, savedPricePredictions,
                   savedFactorPredictions, sinkLog, predictionTable,
                   factorTable, clock, outChunks, errChunks, other, cur>>
    /\ UNCHANGED <<authHeader, reqUser, nextCalls, Person, calls, database, dbInstance,
                   instances, app>>

\* adminOnly: 401 without req.user, 403 when req.user.role is not 'admin',
\* otherwise next.
AdminOnly ==
    /\ mw = "adminOnly"
    /\ IF reqUser = <<>>
       THEN /\ responses' = Append(responses, NotAuthenticatedResponse)
            /\ mw' = "sent"
       ELSE IF reqUser[1].role # "admin"
       THEN /\ responses' = Append(responses, AdminRequiredResponse)
            /\ mw' = "sent"
       ELSE /\ mw' = "handler"
            /\ UNCHANGED responses
    /\ UNCHANGED <<pc, doc, stockData, spawned, stdinLog, procOut, procErr,
                   pythonOutput, pythonError, exitCode, parseLog, predictions,
                   priceIdx, factorIdx, pendingRecord, savedPricePredictions,
                   savedFactorPredictions, sinkLog, predictionTable,
                   factorTable, clock, outChunks, errChunks, other, cur>>
    /\ UNCHANGED <<authHeader, reqUser, nextCalls, Person, calls, database, dbInstance,
                   instances, app>>

\* router.post('/', authenticate, adminOnly, handler): the handler is
\* entered when adminOnly has called next.
HandlerEntered == mw = "handler" /\ Trigger

InitGuarded ==
    /\ doc \in ChunkDocuments
    /\ InitHandler
    /\ InitAuth
    /\ Person \in AuthTables
    /\ calls = <<>>
    /\ InitConnection

NextGuarded ==
    \/ \E h \in AuthHeaders : Authenticate(h)
    \/ GetDbConnectionResolved
    \/ ReadPersonResolved
    \/ ReadPersonRejected
    \/ AdminOnly
    \/ HandlerEntered
    \/ \E sd \in TwoStockResults : StocksResolved(sd)
    \/ \E lex \in TwoOutLexemes : StdoutData(<<lex>>)
    \/ \E code \in ExitCodes : Close(code)
    \/ ParseOutput
    \/ Validate
    \/ PriceLoopNext
    \/ SavePredictionResolved
    \/ SavePredictionRejected
    \/ FactorLoopNext
    \/ SaveFactorPredictionResolved
    \/ SaveFactorPredictionRejected

SpecGuarded == InitGuarded /\ [][NextGuarded]_vars

\* ------------------------------------------------------ connection, startup
\* The callers of createDatabaseConnection: initApp of index.js at startup,
\* and getDbConnection of authenticate.js for the requests that arrive once
\* the application listens.
Starter == 1
Requesters == {2, 3}
Callers == {Starter} \cup Requesters

\* A call that has not been made: the function called, its position, the
\* instance whose connect it awaits and the instance it returns (0: none).
IdleCall == [op |-> "none", pc |-> "idle", inst |-> 0, ret |-> 0]

\* database && database.connected, and likewise for dbInstance.
IsConnected(id) == id # 0 /\ instances[id].connected

\* createDatabaseConnection up to its first await: the connected instance
\* is returned; otherwise a new Database is created, stored in database,
\* and its connect awaited.
CreateDatabaseConnectionStart(c, op) ==
    /\ IF IsConnected(database)
       THEN /\ calls' = [calls EXCEPT ![c] =
                    [op |-> op, pc |-> "returning", inst |-> 0, ret |-> database]]
            /\ UNCHANGED <<database, instances>>
       ELSE /\ instances' = Append(instances, [connected |-> FALSE])
            /\ database' = Len(instances) + 1
            /\ calls' = [calls EXCEPT ![c] =
                    [op |-> op, pc |-> "awaitConnect",
                     inst |-> Len(instances) + 1, ret |-> 0]]

\* initApp() is called when index.js is loaded.
InitAppStart ==
    /\ calls[Starter].pc = "idle"
    /\ CreateDatabaseConnectionStart(Starter, "initApp")
    /\ UNCHANGED <<handlerVars, authVars, Person, dbInstance, app>>

\* getDbConnection() is called for a request: dbInstance when it is
\* connected, otherwise the result of createDatabaseConnection.
GetDbConnection(c) ==
    /\ app.listening
    /\ calls[c].pc = "idle"
    /\ IF IsConnected(dbInstance)
       THEN /\ calls' = [calls EXCEPT ![c] =
                    [op |-> "getDbConnection", pc |-> "done",
                     inst |-> 0, ret |-> dbInstance]]
            /\ UNCHANGED <<database, instances>>
       ELSE CreateDatabaseConnectionStart(c, "getDbConnection")
    /\ UNCHANGED <<handlerVars, authVars, Person, dbInstance, app>>

\* await database.connect() returns: sql.connect resolved and connected is
\* true, or it rejected, the error was logged in connect's catch and
\* connected is false; in both cases the factory goes on.
ConnectSettled(c, ok) ==
    /\ calls[c].pc = "awaitConnect"
    /\ instances' = [instances EXCEPT ![calls[c].inst].connected = ok]
    /\ calls' = [calls EXCEPT ![c].pc = "awaitCreateTable"]
    /\ UNCHANGED <<handlerVars, authVars, Person, database, dbInstance, app>>

\* await database.createTable(); await database.createStockTable(); return
\* database: the value of the module's variable at that moment.
TablesCreated(c) ==
    /\ calls[c].pc = "awaitCreateTable"
    /\ calls' = [calls EXCEPT ![c].pc = "returning", ![c].ret = database]
    /\ UNCHANGED <<handlerVars, authVars, Person, database, dbInstance,
                   instances, app>>

\* The caller resumes with the instance: initApp mounts the routes and
\* listens; getDbConnection stores it in dbInstance and returns it.
ConnectionReturned(c) ==
    /\ calls[c].pc = "returning"
    /\ calls' = [calls EXCEPT ![c].pc = "done"]
    /\ IF calls[c].op = "initApp"
       THEN /\ app' = [app EXCEPT !.mounted = TRUE, !.listening = TRUE]
            /\ UNCHANGED dbInstance
       ELSE /\ dbInstance' = calls[c].ret
            /\ UNCHANGED app
    /\ UNCHANGED <<handlerVars, authVars, Person, database, instances>>

InitStartup ==
    /\ doc \in ChunkDocuments
    /\ InitHandler
    /\ InitAuth
    /\ Person = <<>>
    /\ calls = [c \in Callers |-> IdleCall]
    /\ InitConnection

NextStartup ==
    \/ InitAppStart
    \/ \E c \in Requesters : GetDbConnection(c)
    \/ \E c \in Callers : \E ok \in BOOLEAN : ConnectSettled(c, ok)
    \/ \E c \in Callers : TablesCreated(c)
    \/ \E c \in Callers : ConnectionReturned(c)

SpecStartup == InitStartup /\ [][NextStartup]_vars

\* ------------------------------------------------------ registration
\* Two clients of POST /persons/register; name and password are given, the
\* account is missing ("") or one of two accounts.
Clients == {1, 2}
Accounts == {"", "a1", "a2"}
RegisterTables == {<<>>, <<PersonRow(1, "a1", "user", <<>>)>>}

\* A registration not yet requested: its position, the account asked for,
\* the status answered (0: none), where a conflict was found, and the id
\* of the row it created (0: none).
IdleRegistration ==
    [op |-> "register", pc |-> "idle", account |-> "", status |-> 0,
     at |-> "none", id |-> 0]

\* SELECT * FROM Person WHERE account = @account; recordset[0].
readPersonbyAccount(table, account) ==
    SelectSeq(table, LAMBDA row : row.account = account)

\* The request arrives: 400 when a field is missing, otherwise the route
\* looks the account up.
Register(c, account) ==
    /\ calls[c].pc = "idle"
    /\ calls' = [calls EXCEPT ![c] =
            IF account = ""
            THEN [@ EXCEPT !.pc = "done", !.account = account, !.status = 400]
            ELSE [@ EXCEPT !.pc = "awaitExistingUser", !.account = account]]
    /\ UNCHANGED <<handlerVars, authVars, Person, database, dbInstance,
                   instances, app>>

\* The route's lookup returns: 409 when the account exists, otherwise the
\* password is hashed.
ExistingUserResolved(c) ==
    /\ calls[c].pc = "awaitExistingUser"
    /\ calls' = [calls EXCEPT ![c] =
            IF readPersonbyAccount(Person, calls[c].account) # <<>>
            THEN [@ EXCEPT !.pc = "done", !.status = 409, !.at = "route"]
            ELSE [@ EXCEPT !.pc = "awaitHash"]]
    /\ UNCHANGED <<handlerVars, authVars, Person, database, dbInstance,
                   instances, app>>

\* await bcrypt.hash returns and createPerson is called: it looks the
\* account up once more.
HashResolved(c) ==
    /\ calls[c].pc = "awaitHash"
    /\ calls' = [calls EXCEPT ![c].pc = "awaitCreateCheck"]
    /\ UNCHANGED <<handlerVars, authVars, Person, database, dbInstance,
                   instances, app>>

\* createPerson's lookup returns: with a row it throws the "already
\* registered" error, which the route answers 409; otherwise the INSERT is
\* sent.
CreateCheckResolved(c) ==
    /\ calls[c].pc = "awaitCreateCheck"
    /\ calls' = [calls EXCEPT ![c] =
            IF readPersonbyAccount(Person, calls[c].account) # <<>>
            THEN [@ EXCEPT !.pc = "done", !.status = 409, !.at = "createPerson"]
            ELSE [@ EXCEPT !.pc = "awaitInsert"]]
    /\ UNCHANGED <<handlerVars, authVars, Person, database, dbInstance,
                   instances, app>>

\* Variant of the INSERT on a table whose account column has no UNIQUE
\* constraint.
InsertSettled_NoUnique(c) ==
    /\ calls[c].pc = "awaitInsert"
    /\ Person' = Append(Person,
                        PersonRow(Len(Person) + 1, calls[c].account, "user", <<>>))
    /\ calls' = [calls EXCEPT ![c] =
            [@ EXCEPT !.pc = "done", !.status = 201, !.id = Len(Person) + 1]]
    /\ UNCHANGED <<handlerVars, authVars, database, dbInstance, instances, app>>

\* INSERT INTO Person ...; SELECT SCOPE_IDENTITY(): the UNIQUE constraint
\* on account rejects a second row (error 2627, rethrown as "already
\* registered" and answered 409); otherwise the row is added with the next
\* identity and the route answers 201 with its id.
InsertSettled(c) ==
    /\ calls[c].pc = "awaitInsert"
    /\ IF readPersonbyAccount(Person, calls[c].account) # <<>>
       THEN /\ calls' = [calls EXCEPT ![c] =
                    [@ EXCEPT !.pc = "done", !.status = 409, !.at = "insert"]]
            /\ UNCHANGED Person
       ELSE /\ Person' = Append(Person,
                    PersonRow(Len(Person) + 1, calls[c].account, "user", <<>>))
            /\ calls' = [calls EXCEPT ![c] =
                    [@ EXCEPT !.pc = "done", !.status = 201,
                              !.id = Len(Person) + 1]]
    /\ UNCHANGED <<handlerVars, authVars, database, dbInstance, instances, app>>

InitRegister ==
    /\ doc \in ChunkDocuments
    /\ InitHandler
    /\ InitAuth
    /\ Person \in RegisterTables
    /\ calls = [c \in Clients |-> IdleRegistration]
    /\ InitConnection

NextRegister ==
    \/ \E c \in Clients : \E account \in Accounts : Register(c, account)
    \/ \E c \in Clients : ExistingUserResolved(c)
    \/ \E c \in Clients : HashResolved(c)
    \/ \E c \in Clients : CreateCheckResolved(c)
    \/ \E c \in Clients : InsertSettled(c)

SpecRegister == InitRegister /\ [][NextRegister]_vars

\* ------------------------------------------------------ watch list
\* selectedStocks is text: stock ids joined by ",".  A text is a sequence
\* of lexemes, each a stock id or the separator.
\* stocks.join(',')
Join(stocks) ==
    [i \in 1..(IF stocks = <<>> THEN 0 ELSE 2 * Len(stocks) - 1) |->
        IF i % 2 = 1 THEN stocks[(i + 1) \div 2] ELSE ","]
\* selectedStocks.split(','): the empty text splits into one empty id.
Split(text) ==
    IF text = <<>> THEN <<"">> ELSE SelectSeq(text, LAMBDA lex : lex # ",")
\* stocks.includes(stockId)
Includes(stocks, stockId) == \E i \in 1..Len(stocks) : stocks[i] = stockId
\* for (const stockId of stockIds) if (!stocks.includes(stockId)) stocks.push(stockId)
RECURSIVE PushMissing(_, _)
PushMissing(stocks, stockIds) ==
    IF stockIds = <<>> THEN stocks
    ELSE PushMissing(IF Includes(stocks, Head(stockIds)) THEN stocks
                     ELSE Append(stocks, Head(stockIds)),
                     Tail(stockIds))
\* stocks.filter(id => id !== stockId)
Without(stocks, stockId) == SelectSeq(stocks, LAMBDA id : id # stockId)

\* The user of the two requests, the lists a request adds, the stocks a
\* request removes, and the Person tables they meet: no such user, an empty
\* list, lists of one and two stocks.
WatchUser == 1
AddedLists == {<<"s1">>, <<"s2">>, <<"s2", "s3">>}
RemovedStocks == {"s1", "s2"}
WatchTables ==
    {<<>>} \cup {<<PersonRow(WatchUser, "a1", "user", Join(list))>> :
                    list \in {<<>>, <<"s1">>, <<"s1", "s2">>}}

\* A call not yet made: the function, its position, its argument, the
\* text it read, the text it writes, the rows the UPDATE affected and the
\* status the route answered (0: none).
IdleWatch ==
    [op |-> "none", pc |-> "idle", stockIds |-> <<>>, snapshot |-> <<>>,
     write |-> <<>>, rowsAffected |-> 0, status |-> 0]

\* POST /persons/stocks calls addStocksToUser, which reads the user.
AddStocksToUser(c, stockIds) ==
    /\ calls[c].pc = "idle"
    /\ calls' = [calls EXCEPT ![c] =
            [@ EXCEPT !.op = "add", !.pc = "awaitRead", !.stockIds = stockIds]]
    /\ UNCHANGED <<handlerVars, authVars, Person, database, dbInstance,
                   instances, app>>

\* DELETE /persons/stocks/:stockId calls removeStockFromUser, which reads
\* the user.
RemoveStockFromUser(c, stockId) ==
    /\ calls[c].pc = "idle"
    /\ calls' = [calls EXCEPT ![c] =
            [@ EXCEPT !.op = "remove", !.pc = "awaitRead",
                      !.stockIds = <<stockId>>]]
    /\ UNCHANGED <<handlerVars, authVars, Person, database, dbInstance,
                   instances, app>>

\* if (rowsAffected === 0) 404, otherwise 200.
WatchStatus(rowsAffected) == IF rowsAffected = 0 THEN 404 ELSE 200

\* await this.readPersonbyId(userId) returns.  addStocksToUser returns 0
\* without a user, removeStockFromUser without a user or with an empty
\* selectedStocks; otherwise the new list is computed from the text read
\* and the UPDATE is sent.
WatchReadResolved(c) ==
    /\ calls[c].pc = "awaitRead"
    /\ LET user == readPersonbyId(Person, WatchUser)
           text == IF user = <<>> THEN <<>> ELSE user[1].selectedStocks
       IN  calls' = [calls EXCEPT ![c] =
            IF user = <<>> \/ (calls[c].op = "remove" /\ text = <<>>)
            THEN [@ EXCEPT !.pc = "done", !.rowsAffected = 0,
                           !.snapshot = text, !.status = WatchStatus(0)]
            ELSE IF calls[c].op = "add"
            THEN [@ EXCEPT !.pc = "awaitUpdate", !.snapshot = text,
                    !.write = Join(PushMissing(
                                IF text # <<>> THEN Split(text) ELSE <<>>,
                                calls[c].stockIds))]
            ELSE [@ EXCEPT !.pc = "awaitUpdate", !.snapshot = text,
                    !.write = Join(Without(Split(text), calls[c].stockIds[1]))]]
    /\ UNCHANGED <<handlerVars, authVars, Person, database, dbInstance,
                   instances, app>>

\* UPDATE Person SET selectedStocks=@selectedStocks WHERE id = @id returns
\* the number of rows it changed; the route answers by that number.
WatchUpdateResolved(c) ==
    /\ calls[c].pc = "awaitUpdate"
    /\ Person' = [i \in 1..Len(Person) |->
                    IF Person[i].id = WatchUser
                    THEN [Person[i] EXCEPT !.selectedStocks = calls[c].write]
                    ELSE Person[i]]
    /\ LET rows == Len(readPersonbyId(Person, WatchUser))
       IN  calls' = [calls EXCEPT ![c] =
                [@ EXCEPT !.pc = "done", !.rowsAffected = rows,
                          !.status = WatchStatus(rows)]]
    /\ UNCHANGED <<handlerVars, authVars, database, dbInstance, instances, app>>

InitWatch ==
    /\ doc \in ChunkDocuments
    /\ InitHandler
    /\ InitAuth
    /\ Person \in WatchTables
    /\ calls = [c \in Clients |-> IdleWatch]
    /\ InitConnection

NextWatch ==
    \/ \E c \in Clients : \E stockIds \in AddedLists : AddStocksToUser(c, stockIds)
    \/ \E c \in Clients : \E stockId \in RemovedStocks : RemoveStockFromUser(c, stockId)
    \/ \E c \in Clients : WatchReadResolved(c)
    \/ \E c \in Clients : WatchUpdateResolved(c)

SpecWatch == InitWatch /\ [][NextWatch]_vars

\* ================================================================ properties
\* The calls of a sink operation issued so far, in order.
Calls(op) == SelectSeq(sinkLog, LAMBDA e : e.op = op /\ e.ev = "call")
\* A call of the sink operation has raised.
Raised(op) == \E i \in 1..Len(sinkLog) : sinkLog[i].op = op /\ sinkLog[i].ev = "raise"
\* A price row is the row of a raw price entry (whatever its timestamp).
IsPriceOf(row, entry) ==
    /\ row.stockId = entry.stockid
    /\ row.date = entry.date
    /\ row.predictedPrice = entry.label
\* A factor row is the row of a raw factor entry.
IsFactorOf(row, entry) ==
    /\ row.stockId = entry.stockid
    /\ row.date = entry.date
    /\ <<row.TTM, row.PE, row.PB, row.PCF>> = <<entry.y0, entry.y1, entry.y2, entry.y3>>
\* rows is the image of the first n entries, in order.
PriceRowsOf(rows, entries, n) ==
    /\ Len(rows) = n
    /\ n <= Len(entries)
    /\ \A i \in 1..n : IsPriceOf(rows[i], entries[i])
FactorRowsOf(rows, entries, n) ==
    /\ Len(rows) = n
    /\ n <= Len(entries)
    /\ \A i \in 1..n : IsFactorOf(rows[i], entries[i])
\* The handler has sent exactly one response, a failure, and has ended.
EndedInFailure ==
    /\ pc = "done"
    /\ Len(responses) = 1
    /\ responses[1].status # 200

\* C1: when the k-th savePrediction call raises, exactly the first k-1 price
\* entries are persisted, in order, no later price entry is written, no factor
\* write is attempted, and the run ends with one failure response; when the
\* j-th saveFactorPrediction call raises, all price entries and exactly the
\* first j-1 factor entries are persisted.
PartialPersistenceFailure ==
    /\ Raised("savePrediction") =>
         LET P == predictions[1].final_predictions.items
             k == Len(Calls("savePrediction"))
         IN  /\ k \in 1..Len(P)
             /\ PriceRowsOf(predictionTable, P, k - 1)
             /\ IsPriceOf(sinkLog[Len(sinkLog)].record, P[k])
             /\ sinkLog[Len(sinkLog)].ev = "raise"
             /\ Calls("saveFactorPrediction") = <<>>
             /\ factorTable = <<>>
             /\ EndedInFailure
    /\ Raised("saveFactorPrediction") =>
         LET P == predictions[1].final_predictions.items
             F == predictions[1].factor_predictions.items
             j == Len(Calls("saveFactorPrediction"))
         IN  /\ j \in 1..Len(F)
             /\ PriceRowsOf(predictionTable, P, Len(P))
             /\ FactorRowsOf(factorTable, F, j - 1)
             /\ sinkLog[Len(sinkLog)].ev = "raise"
             /\ EndedInFailure

\* C1 witness: the second of two price writes has raised.
PartialPersistenceFailureWitness ==
    /\ Raised("savePrediction")
    /\ Len(predictionTable) = 1
    /\ Len(predictions[1].final_predictions.items) = 2
    /\ Len(predictions[1].factor_predictions.items) > 0

\* C2: a run that exits 0, decodes to N price entries and M factor entries and
\* meets no raising write issues exactly N savePrediction and M
\* saveFactorPrediction calls, one per entry in sequence order, and answers
\* with the success summary whose counts are N and M.
SuccessfulRunPersistsAll ==
    (/\ pc = "done"
     /\ exitCode = 0
     /\ predictions # <<>>
     /\ predictions[1].final_predictions.kind = "seq"
     /\ predictions[1].factor_predictions.kind = "seq"
     /\ ~Raised("savePrediction")
     /\ ~Raised("saveFactorPrediction"))
    =>
    LET P == predictions[1].final_predictions.items
        F == predictions[1].factor_predictions.items
        priceCalls == Calls("savePrediction")
        factorCalls == Calls("saveFactorPrediction")
    IN  /\ PriceRowsOf([i \in 1..Len(priceCalls) |-> priceCalls[i].record], P, Len(P))
        /\ FactorRowsOf([i \in 1..Len(factorCalls) |-> factorCalls[i].record], F, Len(F))
        /\ PriceRowsOf(predictionTable, P, Len(P))
        /\ FactorRowsOf(factorTable, F, Len(F))
        /\ Len(responses) = 1
        /\ responses[1].status = 200
        /\ responses[1].pricePredictions.count = Len(P)
        /\ responses[1].factorPredictions.count = Len(F)

\* C2 witness: a finished run that wrote two price and one factor entries.
SuccessfulRunPersistsAllWitness ==
    /\ pc = "done"
    /\ Len(responses) = 1
    /\ responses[1].status = 200
    /\ Len(predictionTable) = 2
    /\ Len(factorTable) = 1

\* C3: when the program closes with a nonzero exit code the run answers with
\* the process-execution failure carrying all the program wrote to stderr,
\* JSON.parse is never called and no sink write is issued.
NonzeroExitShortCircuits ==
    (exitCode # -1 /\ exitCode # 0) =>
        /\ pc = "done"
        /\ Len(responses) = 1
        /\ responses[1].status = 500
        /\ responses[1].error = "ModelExecutionFailed"
        /\ responses[1].details = procErr
        /\ parseLog = <<>>
        /\ predictions = <<>>
        /\ sinkLog = <<>>

\* C3 witness: exit code 1 after a valid result document on stdout and two
\* chunks on stderr.
NonzeroExitShortCircuitsWitness ==
    /\ exitCode = 1
    /\ procOut = <<"D">>
    /\ doc.final_predictions.kind = "seq" /\ Len(doc.final_predictions.items) > 0
    /\ doc.factor_predictions.kind = "seq" /\ Len(doc.factor_predictions.items) > 0
    /\ Len(procErr) = 2

\* C4: when getAllStocks resolves to no value or to no rows the run answers
\* with the empty-dataset error, no process is spawned, nothing is written to
\* an input channel, and no sink write is issued.
EmptyDatasetRejected ==
    (stockData # <<>> /\ (stockData[1].isNull \/ stockData[1].rows = <<>>)) =>
        /\ pc = "done"
        /\ responses = <<[status |-> 404, error |-> "NoStockData"]>>
        /\ spawned = 0
        /\ stdinLog = <<>>
        /\ sinkLog = <<>>

\* C4 witness: getAllStocks resolved to no value.
EmptyDatasetRejectedWitness ==
    /\ stockData = <<NoValue>>
    /\ pc = "done"

\* Positions of the lexemes of a text that hold a '{', and that hold a '}'.
Opens(s) == {i \in 1..Len(s) : s[i] \in {"{", "D"}}
Closes(s) == {i \in 1..Len(s) : s[i] \in {"}", "D"}}
Least(S) == CHOOSE x \in S : \A y \in S : x <= y
Greatest(S) == CHOOSE x \in S : \A y \in S : y <= x
\* A '{' occurs and a '}' occurs at or after the first '{'.
HasBracePair(s) ==
    /\ Opens(s) # {}
    /\ \E j \in Closes(s) : j >= Least(Opens(s))
\* The text from its first '{' to its last '}', both included.
BracePart(s) == SubSeq(s, Least(Opens(s)), Greatest(Closes(s)))
\* n lexemes of text without braces.
Noise(n) == [i \in 1..n |-> "w"]
\* The handler is past the decoding of the output of a zero-exit run.
OutputExamined == exitCode = 0 /\ pc # "parse"

\* C5: the decoded result of a zero-exit run is the direct decoding of the
\* whole stdout text when that succeeds, otherwise the decoding of the text
\* from the first '{' to the last '}' when that exists and decodes; the second
\* decoding is tried only after the direct one failed, and once; noise without
\* braces around a valid document recovers the document.
OutputRecovery ==
    OutputExamined =>
        LET out == pythonOutput
            direct == JSONparse(out, doc)
        IN  /\ Len(parseLog) \in 1..2
            /\ parseLog[1] = out
            /\ direct.ok => parseLog = <<out>> /\ predictions = <<direct.value>>
            /\ Len(parseLog) = 2 => ~direct.ok
            /\ (~direct.ok /\ HasBracePair(out)) =>
                  /\ parseLog = <<out, BracePart(out)>>
                  /\ JSONparse(BracePart(out), doc).ok =>
                        predictions = <<JSONparse(BracePart(out), doc).value>>
            /\ (\E a, b \in 0..Len(out) : out = Noise(a) \o <<"D">> \o Noise(b)) =>
                  predictions = <<doc>>

\* C5 witness: the document between two diagnostic lines has been recovered
\* by the second decoding.
OutputRecoveryWitness ==
    /\ OutputExamined
    /\ pythonOutput = <<"w", "D", "w">>
    /\ parseLog = <<pythonOutput, <<"D">> >>
    /\ predictions = <<doc>>
    /\ doc.final_predictions.kind = "seq"

\* C6: when the direct decoding fails and the text has no '{', or no '}' at or
\* after its first '{', or its '{'..'}' part does not decode, the run fails
\* with the unrecoverable-output error and no sink write is issued.
UnrecoverableOutput ==
    (/\ OutputExamined
     /\ ~JSONparse(pythonOutput, doc).ok
     /\ \/ ~HasBracePair(pythonOutput)
        \/ ~JSONparse(BracePart(pythonOutput), doc).ok)
    =>
        /\ pc = "done"
        /\ predictions = <<>>
        /\ Len(responses) = 1
        /\ responses[1].status = 500
        /\ responses[1].error = "ParseResultFailed"
        /\ responses[1].details \in {"NoJsonFound", "SyntaxError"}
        /\ sinkLog = <<>>

\* C6 witness: the only '}' precedes the first '{'.
UnrecoverableOutputWitness ==
    /\ OutputExamined
    /\ pythonOutput = <<"}", "{">>
    /\ pc = "done"

\* C7: when the decoded object lacks final_predictions or factor_predictions
\* the run fails with the malformed-result error and no record of either kind
\* is written.
MissingKeyFailsRun ==
    (/\ predictions # <<>>
     /\ pc # "validate"
     /\ \/ predictions[1].final_predictions.kind = "absent"
        \/ predictions[1].factor_predictions.kind = "absent")
    =>
        /\ pc = "done"
        /\ Len(responses) = 1
        /\ responses[1].status = 500
        /\ responses[1].error = "ParseResultFailed"
        /\ responses[1].details = "MissingFields"
        /\ sinkLog = <<>>
        /\ predictionTable = <<>>
        /\ factorTable = <<>>

\* C7 witness: the decoded object holds two price entries and no
\* factor_predictions key.
MissingKeyFailsRunWitness ==
    /\ predictions # <<>>
    /\ pc = "done"
    /\ predictions[1].final_predictions.kind = "seq"
    /\ Len(predictions[1].final_predictions.items) = 2
    /\ predictions[1].factor_predictions.kind = "absent"

\* C8: a decoded result whose final_predictions is a sequence and whose
\* factor_predictions is present but not iterable is rejected without any
\* price prediction having been persisted.
ValidationGuardsPersistence ==
    (/\ predictions # <<>>
     /\ predictions[1].final_predictions.kind = "seq"
     /\ predictions[1].factor_predictions.kind = "noniter")
    =>
        /\ savedPricePredictions = <<>>
        /\ \A i \in 1..Len(sinkLog) : sinkLog[i].ev # "return"

\* C9: the writes of a run are strictly sequential (a call is issued only
\* after the previous one returned or raised), every savePrediction call
\* precedes the first saveFactorPrediction call, and the calls follow the
\* order of the entries of their sequence.
WritesSequentialInOrder ==
    /\ \A i \in 1..Len(sinkLog) :
          /\ (sinkLog[i].ev = "call") <=> (i % 2 = 1)
          /\ i % 2 = 0 =>
                /\ sinkLog[i].op = sinkLog[i - 1].op
                /\ sinkLog[i].record = sinkLog[i - 1].record
    /\ (pendingRecord # <<>>) <=> (Len(sinkLog) % 2 = 1)
    /\ \A i, j \in 1..Len(sinkLog) :
          (i < j /\ sinkLog[i].op = "saveFactorPrediction")
              => sinkLog[j].op = "saveFactorPrediction"
    /\ sinkLog # <<>> =>
          LET priceCalls == Calls("savePrediction")
              factorCalls == Calls("saveFactorPrediction")
          IN  /\ PriceRowsOf([i \in 1..Len(priceCalls) |-> priceCalls[i].record],
                             predictions[1].final_predictions.items,
                             Len(priceCalls))
              /\ FactorRowsOf([i \in 1..Len(factorCalls) |-> factorCalls[i].record],
                              predictions[1].factor_predictions.items,
                              Len(factorCalls))
              /\ factorCalls # <<>> =>
                    Len(priceCalls) = Len(predictions[1].final_predictions.items)

\* C9 witness: two price writes have returned and a factor write is issued.
WritesSequentialInOrderWitness ==
    /\ Len(Calls("savePrediction")) = 2
    /\ Len(Calls("saveFactorPrediction")) = 1
    /\ pc = "awaitSaveFactorPrediction"

\* C10: the handler sends exactly one response on every path, none before it
\* ends and never a second one, and the success summary is sent only when no
\* stage failed.
ExactlyOneOutcome ==
    /\ Len(responses) <= 1
    /\ (pc = "done") <=> (Len(responses) = 1)
    /\ (Len(responses) = 1 /\ responses[1].status = 200) =>
          /\ stockData # <<>> /\ ~stockData[1].isNull /\ stockData[1].rows # <<>>
          /\ spawned = 1
          /\ exitCode = 0
          /\ predictions # <<>>
          /\ predictions[1].final_predictions.kind = "seq"
          /\ predictions[1].factor_predictions.kind = "seq"
          /\ \A i \in 1..Len(sinkLog) : sinkLog[i].ev # "raise"

\* C10 witness: a run that ended after a sink write raised.
ExactlyOneOutcomeWitness ==
    /\ pc = "done"
    /\ Raised("saveFactorPrediction")
    /\ Len(responses) = 1

\* The stage of the pipeline whose failure ended a run, "none" when the run
\* has not failed.
FailureKind(run) ==
    IF run.stockData # <<>>
         /\ (run.stockData[1].isNull \/ run.stockData[1].rows = <<>>)
    THEN "EmptyDataset"
    ELSE IF run.exitCode # -1 /\ run.exitCode # 0
    THEN "ProcessExecutionFailed"
    ELSE IF \E i \in 1..Len(run.sinkLog) : run.sinkLog[i].ev = "raise"
    THEN "PersistenceFailed"
    ELSE IF run.predictions # <<>>
              /\ \/ run.predictions[1].final_predictions.kind \in {"absent", "falsy"}
                 \/ run.predictions[1].factor_predictions.kind \in {"absent", "falsy"}
              /\ run.pc = "done"
    THEN "MalformedPredictionResult"
    ELSE IF run.parseLog # <<>> /\ run.predictions = <<>>
    THEN "UnrecoverableOutput"
    ELSE "none"
\* What a caller can branch on: the HTTP status and the error field.
ErrorCode(response) == <<response.status, response.error>>

\* C11: two runs that failed in different stages (empty dataset, process
\* failure, undecodable output, malformed result, storage failure) are
\* answered with different status / error codes.
DistinctErrorCodes ==
    (/\ pc = "done"
     /\ other.pc = "done"
     /\ FailureKind(RunState) # "none"
     /\ FailureKind(other) # "none"
     /\ FailureKind(RunState) # FailureKind(other))
    => ErrorCode(responses[1]) # ErrorCode(other.responses[1])

\* A response names the failing entry: by its position in its sequence or by
\* the record itself.
IdentifiesEntry(response, k, record) ==
    \/ "index" \in DOMAIN response /\ response.index = k
    \/ "record" \in DOMAIN response /\ response.record = record

\* C12: when a sink write raises, the failure reported to the caller
\* identifies the first failing entry (its index in the sequence or the
\* record itself).
FailureIdentifiesEntry ==
    \A op \in {"savePrediction", "saveFactorPrediction"} :
        Raised(op) =>
            /\ Len(responses) = 1
            /\ IdentifiesEntry(responses[1], Len(Calls(op)),
                               sinkLog[Len(sinkLog)].record)

\* The records whose write by the sink operation returned, in order.
Persisted(op) ==
    LET returned == SelectSeq(sinkLog, LAMBDA e : e.op = op /\ e.ev = "return")
    IN  [i \in 1..Len(returned) |-> returned[i].record]
\* A summary of one kind holds the count of the persisted records and the
\* first five of them (all of them when fewer), in insertion order.
SummaryOf(summary, persisted) ==
    /\ summary.count = Len(persisted)
    /\ Len(summary.samples) = (IF Len(persisted) < 5 THEN Len(persisted) ELSE 5)
    /\ \A i \in 1..Len(summary.samples) : summary.samples[i] = persisted[i]

\* C13: in every success summary the samples of each kind are exactly the
\* first min(5, count) records persisted by the run, in insertion order.
SampleTruncation ==
    (pc = "done" /\ Len(responses) = 1 /\ responses[1].status = 200) =>
        /\ SummaryOf(responses[1].pricePredictions, Persisted("savePrediction"))
        /\ SummaryOf(responses[1].factorPredictions,
                     Persisted("saveFactorPrediction"))

\* C13 witness: a success summary after more than five persisted price
\* predictions and fewer than five factor predictions.
SampleTruncationWitness ==
    /\ pc = "done"
    /\ Len(responses) = 1
    /\ responses[1].status = 200
    /\ responses[1].pricePredictions.count > 5
    /\ Len(responses[1].pricePredictions.samples) = 5
    /\ responses[1].factorPredictions.count = 4

\* C14: every record handed to the sink carries a non-empty stock identifier
\* and a non-empty date; an entry without one is rejected before its write
\* is issued.
PersistedRecordInvariant ==
    \A i \in 1..Len(sinkLog) :
        sinkLog[i].ev = "call" =>
            /\ sinkLog[i].record.stockId # 0
            /\ sinkLog[i].record.date # 0

\* The stages of a run, in the order of the handler's text.
Stages ==
    <<"Idle", "DatasetLoaded", "ProcessRunning", "ProcessComplete",
      "OutputParsed", "Validated", "Persisting", "Done">>
Terminal == {"Done", "Failed"}
Pos(stage) == CHOOSE i \in 1..Len(Stages) : Stages[i] = stage

\* The stage the handler is in: terminal once it has answered, otherwise
\* given by its position.  DatasetLoaded is the stretch between the return
\* of getAllStocks and the spawn, which runs without suspension.
Stage ==
    IF responses # <<>>
    THEN IF responses[1].status = 200 THEN "Done" ELSE "Failed"
    ELSE CASE pc \in {"idle", "awaitStocks"} -> "Idle"
           [] pc = "awaitClose" -> "ProcessRunning"
           [] pc = "parse" -> "ProcessComplete"
           [] pc = "validate" -> "OutputParsed"
           [] pc = "priceLoop" /\ priceIdx = 1 /\ sinkLog = <<>> -> "Validated"
           [] OTHER -> "Persisting"

\* The stages a step enters, in order: the step in which getAllStocks
\* returns enters DatasetLoaded and leaves it at once.
StagesEntered ==
    IF stockData = <<>> /\ stockData' # <<>>
    THEN <<"DatasetLoaded", Stage'>>
    ELSE IF Stage' = Stage THEN <<>> ELSE <<Stage'>>

\* Every stage of the path is the successor of the one before it, or Failed;
\* no stage follows a terminal one.
RECURSIVE LegalPath(_, _)
LegalPath(from, path) ==
    \/ path = <<>>
    \/ /\ from \notin Terminal
       /\ \/ path[1] = "Failed"
          \/ Pos(path[1]) = Pos(from) + 1
       /\ LegalPath(path[1], Tail(path))

\* C15: a run passes through Idle, DatasetLoaded, ProcessRunning,
\* ProcessComplete, OutputParsed, Validated, Persisting, Done in that order;
\* a stage is left only for its successor or for Failed, none is entered
\* twice, and after Done or Failed nothing is spawned, decoded or written.
PipelineStateMachine ==
    [][/\ LegalPath(Stage, StagesEntered)
       /\ Stage \in Terminal =>
            /\ spawned' = spawned
            /\ stdinLog' = stdinLog
            /\ parseLog' = parseLog
            /\ sinkLog' = sinkLog
            /\ predictionTable' = predictionTable
            /\ factorTable' = factorTable]_vars

\* A run that has gone through every stage to Done, with rows written by
\* both loops.
PipelineStateMachineWitness ==
    /\ Stage = "Done"
    /\ stdinLog # <<>>
    /\ parseLog # <<>>
    /\ Len(predictionTable) = MaxEntries
    /\ Len(factorTable) = 1

\* The handler has ended, by a response or with the server process.
Ended == pc \in {"done", "crashed"}

\* C16: a failure at any stage (loading the dataset, launching the program,
\* writing to its stdin, waiting, decoding, validating, persisting) ends the
\* run with exactly one error response; no run ends without an outcome.
StageFailureHandled == Ended => Len(responses) = 1

\* The handler waits, or has waited, for the program's termination.
WaitsOrWaited == pc = "awaitClose" \/ exitCode # -1

\* C17: a run that spawns a process sends the dataset in exactly one write
\* of the whole serialised dataset, followed by exactly one end of stdin and
\* nothing after it, all before the run waits for the process; a run that
\* spawns none writes nothing.
InputProtocol ==
    /\ spawned = 0 => stdinLog = <<>> /\ ~WaitsOrWaited
    /\ spawned > 0 =>
        /\ spawned = 1
        /\ stockData # <<>>
        /\ stdinLog = <<[op |-> "write", data |-> Stringify(stockData[1].rows)],
                        [op |-> "end", data |-> <<>>]>>
        /\ WaitsOrWaited

\* A dataset of several rows has been fed to a process that then ended.
InputProtocolWitness ==
    /\ spawned = 1
    /\ Len(stockData[1].rows) > 1
    /\ Len(stdinLog) = 2
    /\ exitCode = 0

\* A record without its creation time.
Untimed(record) ==
    IF "createdAt" \in DOMAIN record
    THEN [stockId |-> record.stockId, date |-> record.date,
          predictedPrice |-> record.predictedPrice]
    ELSE record
UntimedAll(records) == [i \in 1..Len(records) |-> Untimed(records[i])]

\* What the sink answered to the run's writes, in order.
SinkVerdicts(run) ==
    LET answered == SelectSeq(run.sinkLog, LAMBDA e : e.ev # "call")
    IN  [i \in 1..Len(answered) |-> answered[i].ev]

\* The outcome of a run: its failure kind, its response (the summary without
\* creation times) and the records it persisted.
Outcome(run) ==
    LET returned == SelectSeq(run.sinkLog, LAMBDA e : e.ev = "return")
    IN  [kind |-> FailureKind(run),
         answers |->
            [i \in 1..Len(run.responses) |->
                LET r == run.responses[i]
                IN  IF r.status = 200
                    THEN <<r.status, r.message,
                           r.pricePredictions.count,
                           UntimedAll(r.pricePredictions.samples),
                           r.factorPredictions.count,
                           r.factorPredictions.samples>>
                    ELSE <<r>>],
         persisted |-> [i \in 1..Len(returned) |-> Untimed(returned[i].record)]]

\* Both runs have ended after their programs emitted the same texts with
\* the same exit code, and the sink answered their writes alike.
SameEmission ==
    /\ pc = "done"
    /\ other.pc = "done"
    /\ stockData = other.stockData
    /\ Flatten(outChunks) = Flatten(other.outChunks)
    /\ Flatten(errChunks) = Flatten(other.errChunks)
    /\ exitCode = other.exitCode
    /\ SinkVerdicts(RunState) = SinkVerdicts(other)

\* C18: each buffer is the text of the concatenation, in arrival order, of
\* the chunks received on its channel and only grows, and two runs whose
\* programs emit the same texts cut into chunks at different positions end
\* in the same outcome (failure kind, persisted records, summary).
BoundaryAgnosticBuffering ==
    /\ [](/\ pythonOutput = toString(Flatten(outChunks))
          /\ pythonError = toString(Flatten(errChunks))
          /\ SameEmission => Outcome(RunState) = Outcome(other))
    /\ [][cur' = cur =>
            /\ IsPrefix(pythonOutput, pythonOutput')
            /\ IsPrefix(pythonError, pythonError')]_vars

\* A run has spawned exactly one process, unless it ended before the spawn.
ProcessPerInvocation(run) ==
    run.spawned =
        (IF run.stockData # <<>> /\ ~IsEmptyDataset(run.stockData[1])
         THEN 1 ELSE 0)

\* The writes of a sink operation that returned to the run.
Returned(run, op) ==
    SelectSeq(run.sinkLog, LAMBDA e : e.op = op /\ e.ev = "return")

\* Both runs have ended with the success summary.
BothSucceeded ==
    /\ pc = "done"
    /\ other.pc = "done"
    /\ responses[1].status = 200
    /\ other.responses[1].status = 200

\* C19: two requests whose handlers overlap each spawn their own process
\* (one per invocation), each run collects the output of its own process
\* only, neither is held back by the other, and every write of both runs
\* reaches the shared sink: two successful runs over the same output leave
\* every row twice.
NoPoolingBetweenRuns ==
    /\ ProcessPerInvocation(RunState)
    /\ ProcessPerInvocation(other)
    /\ pythonOutput = procOut
    /\ other.pythonOutput = other.procOut
    /\ pc = "idle" => ENABLED Trigger
    /\ pc = "awaitStocks" => ENABLED (\E sd \in TwoStockResults : StocksResolved(sd))
    /\ pc = "awaitClose" => ENABLED (\E code \in ExitCodes : Close(code))
    /\ pc = "awaitSavePrediction" => ENABLED SavePredictionResolved
    /\ pc = "awaitSaveFactorPrediction" => ENABLED SaveFactorPredictionResolved
    /\ Len(predictionTable) =
          Len(Returned(RunState, "savePrediction"))
            + Len(Returned(other, "savePrediction"))
    /\ Len(factorTable) =
          Len(Returned(RunState, "saveFactorPrediction"))
            + Len(Returned(other, "saveFactorPrediction"))
    /\ BothSucceeded =>
        /\ \A k \in 1..Len(doc.final_predictions.items) :
              Cardinality({i \in 1..Len(predictionTable) :
                  IsPriceOf(predictionTable[i], doc.final_predictions.items[k])}) = 2
        /\ \A k \in 1..Len(doc.factor_predictions.items) :
              Cardinality({i \in 1..Len(factorTable) :
                  IsFactorOf(factorTable[i], doc.factor_predictions.items[k])}) = 2

\* Two runs that were in flight together (the price records of both were
\* built before either write returned) have both succeeded, and the sink
\* holds their rows twice.
NoPoolingBetweenRunsWitness ==
    /\ BothSucceeded
    /\ spawned = 1
    /\ other.spawned = 1
    /\ Len(predictionTable) = 2
    /\ predictionTable[1].createdAt = predictionTable[2].createdAt
    /\ Len(factorTable) = 2

\* C20: while the program has not closed, the run stays where it waits: no
\* step other than the program's 'close' takes it out of the wait, and as
\* long as it waits nothing is answered, decoded or written to the sink.
NoTimeout ==
    /\ [](pc = "awaitClose" =>
            /\ exitCode = -1
            /\ responses = <<>>
            /\ parseLog = <<>>
            /\ sinkLog = <<>>)
    /\ [][(pc = "awaitClose" /\ exitCode' = -1) =>
            /\ pc' = "awaitClose"
            /\ UNCHANGED <<responses, parseLog, sinkLog, spawned, stdinLog>>]_vars

\* The program has written all of its output and has not closed: the
\* handler still waits.
NoTimeoutWitness ==
    /\ pc = "awaitClose"
    /\ Len(procOut) = MaxOut
    /\ Len(procErr) = MaxErr
    /\ exitCode = -1

\* The number of writes the sink had answered before the i-th event of the
\* run: the reading of the clock at that event.
ClockAt(i) ==
    Len(SelectSeq(SubSeq(sinkLog, 1, i - 1), LAMBDA e : e.ev # "call"))

\* C21: the k-th entry of final_predictions is handed to the sink as
\* {stockId, date, predictedPrice, createdAt} with createdAt the time the
\* pipeline read when it built the record, and the k-th entry of
\* factor_predictions as {stockId, date, TTM, PE, PB, PCF}; the shape
\* follows the sequence the entry came from, whatever other fields it has,
\* and a createdAt of the program's is ignored.
MappingByOrigin ==
    \A i \in 1..Len(sinkLog) :
        sinkLog[i].ev = "call" =>
            LET op == sinkLog[i].op
                k == Len(SelectSeq(SubSeq(sinkLog, 1, i),
                                   LAMBDA e : e.op = op /\ e.ev = "call"))
            IN  IF op = "savePrediction"
                THEN LET entry == doc.final_predictions.items[k]
                     IN  sinkLog[i].record =
                            [stockId |-> entry.stockid, date |-> entry.date,
                             predictedPrice |-> entry.label,
                             createdAt |-> ClockAt(i)]
                ELSE LET entry == doc.factor_predictions.items[k]
                     IN  sinkLog[i].record =
                            [stockId |-> entry.stockid, date |-> entry.date,
                             TTM |-> entry.y0, PE |-> entry.y1,
                             PB |-> entry.y2, PCF |-> entry.y3]

\* Entries carrying the fields of both kinds and a creation time of their
\* own have been written by both loops.
MappingByOriginWitness ==
    /\ pc = "done"
    /\ responses[1].status = 200
    /\ "createdAt" \in DOMAIN doc.final_predictions.items[Len(predictionTable)]
    /\ Len(predictionTable) = 2
    /\ "label" \in DOMAIN doc.factor_predictions.items[1]
    /\ Len(factorTable) = 2

\* The run has failed after the program exited with code 0.
FailedAfterZeroExit ==
    /\ pc = "done"
    /\ exitCode = 0
    /\ Len(responses) = 1
    /\ responses[1].status # 200

\* C22: a failure response sent after a zero exit (output not decodable,
\* result not valid, write failed) echoes a prefix of the captured stdout
\* of at most 200 characters, however long the captured stdout is.
BoundedDiagnostics ==
    FailedAfterZeroExit =>
        /\ "pythonOutput" \in DOMAIN responses[1]
        /\ IsPrefix(responses[1].pythonOutput, pythonOutput)
        /\ Len(responses[1].pythonOutput) = Min(Len(pythonOutput), OutputEchoLimit)

\* A write failed in a run whose captured stdout is longer than the limit:
\* the echo holds the first 200 characters.
BoundedDiagnosticsWitness ==
    /\ FailedAfterZeroExit
    /\ Raised("saveFactorPrediction")
    /\ Len(pythonOutput) > OutputEchoLimit
    /\ Len(responses[1].pythonOutput) = OutputEchoLimit

\* The prediction run has started: the dataset was asked for, a process
\* spawned or a write issued.
RunStarted ==
    pc # "idle" \/ stockData # <<>> \/ spawned > 0 \/ sinkLog # <<>>

\* The request carries a Bearer token that verifies.
ValidBearer == StartsWithBearer(authHeader) /\ authHeader.token.verdict = "ok"

\* The role the Person table holds for the token's user (none without row).
CurrentRole ==
    LET user == readPersonbyId(Person, authHeader.token.userId)
    IN  IF user = <<>> THEN "none" ELSE user[1].role

\* C23: a prediction run starts only for a request with a valid Bearer
\* token whose user is in the Person table with the role admin; the role
\* that counts is the one read from the table, not the one in the token.
AdminOnlyTrigger ==
    /\ RunStarted =>
        /\ ValidBearer
        /\ CurrentRole = "admin"
        /\ reqUser = <<[id |-> authHeader.token.userId, role |-> "admin"]>>
    /\ (mw = "sent" /\ ~(ValidBearer /\ CurrentRole = "admin")) =>
        /\ ~RunStarted
        /\ predictionTable = <<>>
        /\ factorTable = <<>>

\* A run has persisted its records for a token signed with the role user
\* whose user is admin in the table.
AdminOnlyTriggerWitness ==
    /\ pc = "done"
    /\ responses[1].status = 200
    /\ authHeader.token.role = "user"
    /\ CurrentRole = "admin"
    /\ Len(predictionTable) = 1

\* The responses authenticate can send.
AuthenticateResponses ==
    {NoTokenResponse, TokenExpiredResponse, InvalidTokenResponse,
     AuthFailedResponse, NoUserResponse, InternalErrorResponse}
AuthenticateAnswers ==
    SelectSeq(responses, LAMBDA r : r \in AuthenticateResponses)
\* authenticate has returned or thrown its last.
AuthenticateEnded == mw \in {"sent", "adminOnly", "handler"}

\* C24: authenticate calls next only for a header that starts with
\* 'Bearer ', a token that verifies and a user id that is in the table; in
\* every other case (no or other header, expired or invalid token, user
\* gone, query failed) it sends exactly one response, 401, 403 or 500, and
\* does not call next; it never does both.
AuthenticatePassesOrAnswers ==
    /\ nextCalls <= 1
    /\ Len(AuthenticateAnswers) <= 1
    /\ nextCalls = 1 =>
        /\ ValidBearer
        /\ CurrentRole # "none"
        /\ AuthenticateAnswers = <<>>
    /\ AuthenticateEnded => nextCalls + Len(AuthenticateAnswers) = 1
    /\ (AuthenticateEnded /\ nextCalls = 0) =>
        AuthenticateAnswers[1] \in
            (IF ~StartsWithBearer(authHeader) THEN {NoTokenResponse}
             ELSE IF authHeader.token.verdict = "expired" THEN {TokenExpiredResponse}
             ELSE IF authHeader.token.verdict = "invalid" THEN {InvalidTokenResponse}
             ELSE IF authHeader.token.verdict = "other" THEN {AuthFailedResponse}
             ELSE IF CurrentRole = "none" THEN {NoUserResponse, InternalErrorResponse}
             ELSE {InternalErrorResponse})

\* A request whose token verifies but whose user is no longer in the table
\* has been answered 403 without next.
AuthenticatePassesOrAnswersWitness ==
    /\ mw = "sent"
    /\ ValidBearer
    /\ CurrentRole = "none"
    /\ Person # <<>>
    /\ responses = <<NoUserResponse>>
    /\ nextCalls = 0

\* The connect awaited by initApp's call has failed.
StartupConnectFailed ==
    /\ calls[Starter].pc \in {"awaitCreateTable", "returning", "done"}
    /\ calls[Starter].inst # 0
    /\ ~instances[calls[Starter].inst].connected

\* C25: the routes are mounted and the application listens only after the
\* database connection is established; when connecting fails the
\* application exits with code 1 and never listens.
StartupGating ==
    /\ (app.mounted \/ app.listening) => ~StartupConnectFailed
    /\ (StartupConnectFailed /\ calls[Starter].pc = "done") =>
        /\ app.exited
        /\ app.code = 1
        /\ ~app.listening

\* C30: at most one Database instance is created and connected, and every
\* call that has returned, among them calls made before the first connect
\* completed, has returned that instance.
SingleSharedConnection ==
    /\ Cardinality({i \in 1..Len(instances) : instances[i].connected}) <= 1
    /\ \A c, d \in Callers :
        (calls[c].pc = "done" /\ calls[d].pc = "done"
            /\ IsConnected(calls[c].ret) /\ IsConnected(calls[d].ret))
        => calls[c].ret = calls[d].ret

\* The account was in the table before any of the registrations.
PreExisting(account) ==
    \E i \in 1..Len(Person) :
        /\ Person[i].account = account
        /\ \A c \in Clients : calls[c].id # Person[i].id

\* The registrations of the account that were answered 201.
Created(account) ==
    {c \in Clients : calls[c].account = account /\ calls[c].status = 201}

\* C26: no two Person rows share an account; a registration of an account
\* that exists is answered 409 and creates no row, and of two concurrent
\* registrations of one new account exactly one creates a row and is
\* answered 201, the other 409.
AccountUniqueness ==
    /\ \A i, j \in 1..Len(Person) :
        Person[i].account = Person[j].account => i = j
    /\ \A c \in Clients :
        /\ calls[c].status = 201 =>
            /\ ~PreExisting(calls[c].account)
            /\ \E i \in 1..Len(Person) :
                /\ Person[i].id = calls[c].id
                /\ Person[i].account = calls[c].account
        /\ calls[c].status # 201 => calls[c].id = 0
        /\ (calls[c].pc = "done" /\ calls[c].account # "") =>
            calls[c].status \in {201, 409}
        /\ (calls[c].pc = "done" /\ PreExisting(calls[c].account)) =>
            calls[c].status = 409
    /\ \A account \in Accounts \ {""} :
        (\A c \in Clients : calls[c].pc = "done" /\ calls[c].account = account)
        => Cardinality(Created(account)) = (IF PreExisting(account) THEN 0 ELSE 1)

\* Two registrations of one new account both passed both lookups; one
\* created the row, the other was stopped by the INSERT and answered 409.
AccountUniquenessWitness ==
    /\ calls[1].account = calls[2].account
    /\ calls[1].status = 201
    /\ calls[2].status = 409
    /\ calls[2].at = "insert"
    /\ Len(Person) = 1

\* The list a selectedStocks text stands for.
ListOf(text) == IF text = <<>> THEN <<>> ELSE Split(text)

\* C27: DELETE /persons/stocks/:stockId answers 404 when the user does not
\* exist or has not added the stock, and 200 only when the stock was in the
\* user's list and has been removed; removing a stock that is not in a
\* non-empty list changes nothing and is answered 404.
RemoveReportsNotFound ==
    \A c \in Clients :
        (calls[c].op = "remove" /\ calls[c].pc = "done") =>
            LET wasListed == Includes(ListOf(calls[c].snapshot), calls[c].stockIds[1])
            IN  /\ calls[c].status = (IF wasListed THEN 200 ELSE 404)
                /\ Person = <<>> => calls[c].status = 404

\* What a call makes of a list when it runs alone.
ApplyCall(call, list) ==
    IF call.op = "add" THEN PushMissing(list, call.stockIds)
    ELSE Without(list, call.stockIds[1])

\* C29: two concurrent calls of addStocksToUser / removeStockFromUser for
\* one user leave the list that the two calls give in some serial order; a
\* stock added by one call is in the list after a concurrent call that
\* added or removed other stocks.
WatchListUpdatesNotLost ==
    (Person # <<>> /\ \A c \in Clients : calls[c].pc = "done") =>
        LET final == ListOf(Person[1].selectedStocks)
        IN  /\ \E table \in WatchTables \ {<<>>} :
                LET initial == ListOf(table[1].selectedStocks)
                IN  \/ final = ApplyCall(calls[2], ApplyCall(calls[1], initial))
                    \/ final = ApplyCall(calls[1], ApplyCall(calls[2], initial))
            /\ \A c, d \in Clients :
                (c # d /\ calls[c].op = "add" /\ ~Includes(calls[d].stockIds, calls[c].stockIds[1])
                    /\ calls[d].op # "none")
                => Includes(final, calls[c].stockIds[1])

\* The text the listener has made of the chunks it was handed.
RECURSIVE Decoded(_)
Decoded(chunks) ==
    IF chunks = <<>> THEN <<>> ELSE toString(Head(chunks)) \o Decoded(Tail(chunks))

\* The exit code has been evaluated.
Examined == exitCode # -1

\* C28: the exit code is evaluated and stdout decoded only after 'close';
\* by then every chunk the program wrote to stdout and stderr has been
\* appended to the buffers; from the spawn on the handler waits for 'close'
\* until it has it, so neither a chunk nor the notification is missed; and
\* no chunk is appended once the examination has begun.
OutputCompleteBeforeExamined ==
    /\ [](Examined =>
            /\ Flatten(outChunks) = procOut
            /\ Flatten(errChunks) = procErr
            /\ pythonOutput = Decoded(outChunks)
            /\ pythonError = Decoded(errChunks))
    /\ []((spawned > 0 /\ ~Examined) => pc = "awaitClose")
    /\ [][pc # "awaitClose" =>
            /\ pythonOutput' = pythonOutput
            /\ pythonError' = pythonError
            /\ procOut' = procOut
            /\ procErr' = procErr]_vars

\* A run has decoded an output that the listener was handed in two chunks,
\* the stderr listener having been called too.
OutputCompleteBeforeExaminedWitness ==
    /\ pc = "validate"
    /\ Len(outChunks) = 2
    /\ Len(errChunks) >= 1
    /\ parseLog # <<>>

====
